---- MODULE Spec2Model ----
(***************************************************************************)
(* Model of the LLM enrichment pipeline: the in-memory work queue, the     *)
(* worker pool, the retrying LLM client, the message processor with its    *)
(* response validator, and the idempotent resume over the output file.     *)
(*                                                                         *)
(* Text is modelled as a sequence of one-character strings, so that        *)
(* lower(), strip(), split(), join() and the substring test are computed   *)
(* as the code computes them; a fixed fragment of a message that holds no   *)
(* digit is kept as one piece.  A Python value is a record of its type t   *)
(* and its content v.                                                      *)
(***************************************************************************)
EXTENDS Integers, Sequences, FiniteSets, TLC

\* ------------------------------------------------------------------ bounds
\* largest number of messages of the input dataset
MaxMsgs == 3
\* largest configured worker pool size (MAX_CONCURRENCY)
MaxWorkers == 2
\* number of pipeline runs over the same input and output path
MaxRuns == 3
\* largest configured RETRIES value
MaxRetries == 2
\* largest number of entries of a prior output file the resume filter reads
MaxPrior == 2

MaxCapacity == 2

MaxProducers == 3

None == "None"

\* ------------------------------------------------------------- text helpers
Range(s) == {s[i] : i \in 1..Len(s)}

Max(a, b) == IF a >= b THEN a ELSE b

Min(a, b) == IF a <= b THEN a ELSE b

UpperLetters == <<"A", "B", "C", "D", "E", "F", "G", "H", "I", "J", "K", "L", "M",
                  "N", "O", "P", "Q", "R", "S", "T", "U", "V", "W", "X", "Y", "Z">>

LowerLetters == <<"a", "b", "c", "d", "e", "f", "g", "h", "i", "j", "k", "l", "m",
                  "n", "o", "p", "q", "r", "s", "t", "u", "v", "w", "x", "y", "z">>

Digits == <<"0", "1", "2", "3", "4", "5", "6", "7", "8", "9">>

Whitespace == {" ", "\t", "\n"}

\* str.lower() on one character
LowerChar(c) ==
    IF \E i \in 1..26 : UpperLetters[i] = c
    THEN LowerLetters[CHOOSE i \in 1..26 : UpperLetters[i] = c]
    ELSE c

\* str.lower()
Lower(s) == [i \in 1..Len(s) |-> LowerChar(s[i])]

\* str.strip(): drop leading and trailing whitespace
Strip(s) ==
    LET keep == {i \in 1..Len(s) : s[i] \notin Whitespace}
    IN  IF keep = {} THEN <<>>
        ELSE LET lo == CHOOSE i \in keep : \A j \in keep : i <= j
                 hi == CHOOSE i \in keep : \A j \in keep : i >= j
             IN  SubSeq(s, lo, hi)

\* `sub in s` for text: sub occurs as a contiguous run of characters of s
Contains(sub, s) ==
    \E i \in 0..(Len(s) - Len(sub)) : SubSeq(s, i + 1, i + Len(sub)) = sub

\* str(n) for an integer n >= 0: its decimal digits
RECURSIVE IntToStr(_)
IntToStr(n) ==
    IF n < 10 THEN <<Digits[n + 1]>>
    ELSE IntToStr(n \div 10) \o <<Digits[(n % 10) + 1]>>

\* ------------------------------------------------------------ Python values
\* a str value, a list value, a dict value, a number, JSON null; Absent marks
\* a key that a dict does not hold
PyStr(text) == [t |-> "str", v |-> text]

PyList(items) == [t |-> "list", v |-> items]

PyInt(n) == [t |-> "int", v |-> n]

PyNone == [t |-> "NoneType", v |-> None]

Absent == [t |-> "absent", v |-> None]

PyDict(category, description, emails) ==
    [t |-> "dict", v |-> [category |-> category, description |-> description, emails |-> emails]]

\* dict.get(key, default)
DictGet(d, key, default) == IF d.v[key].t = "absent" THEN default ELSE d.v[key]

\* bool(value) as `if not raw` evaluates it
Truthy(x) ==
    CASE x.t = "NoneType" -> FALSE
      [] x.t = "int" -> x.v # 0
      [] OTHER -> Len(x.v) > 0

\* an exception instance: its class and str(exc)
Exc(cls, msg) == [cls |-> cls, msg |-> msg]

\* the outcome of a call: a returned value or a raised exception
Return(v) == [raised |-> FALSE, value |-> v, exc |-> None]

Raise(e) == [raised |-> TRUE, value |-> None, exc |-> e]

\* ----------------------------------------------------------------- models
T_phishing == <<"p", "h", "i", "s", "h", "i", "n", "g">>

T_newsletter == <<"n", "e", "w", "s", "l", "e", "t", "t", "e", "r">>

T_internal == <<"i", "n", "t", "e", "r", "n", "a", "l">>

\* the closed enumeration Category, by its values
Category == {T_phishing, T_newsletter, T_internal}

\* a member of the enumeration, as a value
CategoryOf(value) == [t |-> "Category", v |-> value]

Message(id) == [t |-> "Message", id |-> id, text |-> <<"t", "e", "x", "t">>]

EnrichmentResult(id, success, category, description, emails, error) ==
    [id |-> id, success |-> success, category |-> category,
     description |-> description, emails |-> emails, error |-> error]

ValidatedLLMResponse(category, description, emails) ==
    [category |-> category, description |-> description, emails |-> emails]

\* -------------------------------------------------------------- validator
\* LLMResponseValidator(description_word_limit = 25)
description_word_limit == 25

\* a category lookup that compares the stripped text as it was written
_extract_category_case_sensitive(llm_response) ==
    LET raw == DictGet(llm_response, "category", PyStr(<<>>))
    IN  IF raw.t # "str"
        THEN Raise(Exc("ValueError", <<"Category must be a string, got ", raw.t>>))
        ELSE IF Strip(raw.v) \in Category
        THEN Return(CategoryOf(Strip(raw.v)))
        ELSE Raise(Exc("ValueError",
                       <<"Invalid category: '">> \o raw.v \o <<"'. Must be one of ...">>))

_extract_category(llm_response) ==
    LET raw == DictGet(llm_response, "category", PyStr(<<>>))
    IN  IF raw.t # "str"
        THEN Raise(Exc("ValueError", <<"Category must be a string, got ", raw.t>>))
        ELSE LET value == Strip(Lower(raw.v))
             IN  IF value \in Category
                 THEN Return(CategoryOf(value))
                 ELSE Raise(Exc("ValueError",
                                <<"Invalid category: '">> \o raw.v \o <<"'. Must be one of ...">>))

\* str.split(): the maximal runs of non-whitespace characters
RECURSIVE Split(_)
Split(s) ==
    IF s = <<>> THEN <<>>
    ELSE IF Head(s) \in Whitespace THEN Split(Tail(s))
    ELSE LET stop == IF \E i \in 1..Len(s) : s[i] \in Whitespace
                     THEN CHOOSE i \in 1..Len(s) :
                              /\ s[i] \in Whitespace
                              /\ \A j \in 1..(i - 1) : s[j] \notin Whitespace
                     ELSE Len(s) + 1
         IN  <<SubSeq(s, 1, stop - 1)>> \o Split(SubSeq(s, stop, Len(s)))

\* ' '.join(words)
RECURSIVE JoinSpace(_)
JoinSpace(words) ==
    IF words = <<>> THEN <<>>
    ELSE IF Len(words) = 1 THEN words[1]
    ELSE words[1] \o <<" ">> \o JoinSpace(Tail(words))

\* a description that is stripped and never shortened
ExtractDescription_untruncated(llm_response, limit) ==
    LET raw == DictGet(llm_response, "description", PyStr(<<>>))
    IN  IF ~Truthy(raw) THEN <<>> ELSE Strip(raw.v)

\* a description that keeps one word more than the limit
ExtractDescription_one_more(llm_response, limit) ==
    LET raw == DictGet(llm_response, "description", PyStr(<<>>))
    IN  IF ~Truthy(raw) THEN <<>>
        ELSE LET text == Strip(raw.v)
                 words == Split(text)
             IN  IF limit # 0 /\ Len(words) > limit + 1
                 THEN JoinSpace(SubSeq(words, 1, limit + 1))
                 ELSE text

\* str(raw) is modelled for str values only: the payloads of the model carry
\* a description that is text, null or absent
ExtractDescription(llm_response, limit) ==
    LET raw == DictGet(llm_response, "description", PyStr(<<>>))
    IN  IF ~Truthy(raw) THEN <<>>
        ELSE LET text == Strip(raw.v)
                 words == Split(text)
             IN  IF limit # 0 /\ Len(words) > limit
                 THEN JoinSpace(SubSeq(words, 1, limit))
                 ELSE text

_extract_description(llm_response) == ExtractDescription(llm_response, description_word_limit)

LocalChars == Range(LowerLetters) \cup Range(UpperLetters) \cup Range(Digits)
                  \cup {".", "_", "%", "+", "-"}

DomainChars == Range(LowerLetters) \cup Range(UpperLetters) \cup Range(Digits) \cup {".", "-"}

Letters == Range(LowerLetters) \cup Range(UpperLetters)

\* re.compile(r'^[a-zA-Z0-9._%+-]+@[a-zA-Z0-9.-]+\.[a-zA-Z]{2,}$').match(email)
_email_pattern(email) ==
    \E a \in 1..Len(email) : \E d \in 1..Len(email) :
        /\ email[a] = "@"
        /\ email[d] = "."
        /\ a >= 2
        /\ d >= a + 2
        /\ Len(email) >= d + 2
        /\ \A i \in 1..(a - 1) : email[i] \in LocalChars
        /\ \A i \in (a + 1)..(d - 1) : email[i] \in DomainChars
        /\ \A i \in (d + 1)..Len(email) : email[i] \in Letters

\* an email check that stops at the pattern
_is_valid_email_pattern_only(email) == _email_pattern(email)

_is_valid_email(email) ==
    IF ~_email_pattern(email) THEN FALSE
    ELSE IF Contains(<<"@", "@">>, email) \/ Contains(<<".", ".">>, email) THEN FALSE
    ELSE TRUE

\* text order of Python's str comparison over the characters of the model
CharRank(c) ==
    CASE c = " " -> 32 [] c = "%" -> 37 [] c = "+" -> 43 [] c = "-" -> 45 [] c = "." -> 46
      [] \E i \in 1..10 : Digits[i] = c -> 47 + (CHOOSE i \in 1..10 : Digits[i] = c)
      [] c = "@" -> 64
      [] \E i \in 1..26 : UpperLetters[i] = c -> 64 + (CHOOSE i \in 1..26 : UpperLetters[i] = c)
      [] c = "_" -> 95
      [] \E i \in 1..26 : LowerLetters[i] = c -> 96 + (CHOOSE i \in 1..26 : LowerLetters[i] = c)
      [] OTHER -> 127

RECURSIVE TextLess(_, _)
TextLess(a, b) ==
    IF b = <<>> THEN FALSE
    ELSE IF a = <<>> THEN TRUE
    ELSE IF CharRank(Head(a)) # CharRank(Head(b)) THEN CharRank(Head(a)) < CharRank(Head(b))
    ELSE TextLess(Tail(a), Tail(b))

\* sorted(set_of_text)
RECURSIVE SortedTexts(_)
SortedTexts(S) ==
    IF S = {} THEN <<>>
    ELSE LET least == CHOOSE x \in S : \A y \in S \ {x} : TextLess(x, y)
         IN  <<least>> \o SortedTexts(S \ {least})

\* an email extraction that keeps the valid candidates as they come
_extract_emails_in_order(llm_response) ==
    LET raw == DictGet(llm_response, "emails", PyList(<<>>))
    IN  IF raw.t # "list" THEN <<>>
        ELSE LET valid(item) == item.t = "str" /\ _is_valid_email(Strip(Lower(item.v)))
                 kept == SelectSeq(raw.v, valid)
             IN  [i \in 1..Len(kept) |-> Strip(Lower(kept[i].v))]

_extract_emails(llm_response) ==
    LET raw == DictGet(llm_response, "emails", PyList(<<>>))
    IN  IF raw.t # "list" THEN <<>>
        ELSE LET normalized_emails ==
                     {Strip(Lower(raw.v[i].v)) :
                          i \in {j \in 1..Len(raw.v) :
                                     /\ raw.v[j].t = "str"
                                     /\ _is_valid_email(Strip(Lower(raw.v[j].v)))}}
             IN  SortedTexts(normalized_emails)

\* LLMResponseValidator(description_word_limit).validate: a payload that is
\* no dict has no .get
LLMResponseValidator_validate(word_limit, llm_response) ==
    IF llm_response.t # "dict"
    THEN Raise(Exc("AttributeError", <<"'", llm_response.t, "' object has no attribute 'get'">>))
    ELSE LET category == _extract_category(llm_response)
         IN  IF category.raised THEN category
             ELSE Return(ValidatedLLMResponse(category.value,
                                              ExtractDescription(llm_response, word_limit),
                                              _extract_emails(llm_response)))

\* validate of LLMResponseValidator(), the validator of MessageProcessor
validate(llm_response) == LLMResponseValidator_validate(description_word_limit, llm_response)

\* -------------------------------------------------------------- processor
\* the exception classes that derive from Exception (`except Exception`
\* catches them): every class the client, the validator and the executor raise
IsException(e) == e.cls \notin {"KeyboardInterrupt", "SystemExit", "GeneratorExit"}

\* the try block of MessageProcessor.process, given what
\* llm_client.generate does when called: gen is Return(payload) or Raise(exc)
process_try(message, gen) ==
    IF gen.raised THEN gen
    ELSE IF gen.value.t = "NoneType"
    THEN Return(EnrichmentResult(message.id, FALSE, PyNone, PyNone, PyNone,
                                 PyStr(<<"Failed to get LLM response">>)))
    ELSE LET validated == validate(gen.value)
         IN  IF validated.raised THEN validated
             ELSE IF validated.value.category.t = "NoneType"
             THEN Return(EnrichmentResult(message.id, FALSE, PyNone, PyNone, PyNone,
                                          PyStr(<<"Invalid category in LLM response">>)))
             ELSE Return(EnrichmentResult(message.id, TRUE, validated.value.category,
                                          PyStr(validated.value.description),
                                          PyList(validated.value.emails), PyNone))

\* process without its except clause
process_no_catch(message, gen) == process_try(message, gen)

\* MessageProcessor.process: the try block under `except Exception as e`
process(message, gen) ==
    LET tried == process_try(message, gen)
    IN  IF tried.raised /\ IsException(tried.exc)
        THEN Return(EnrichmentResult(message.id, FALSE, PyNone, PyNone, PyNone,
                                     PyStr(<<"Processing error: ">> \o tried.exc.msg)))
        ELSE tried

\* ------------------------------------------------------------------ queue
\* InMemoryQueue over asyncio.Queue(maxsize = 0); one event loop runs every
\* coroutine, so put() on an unbounded queue and get_nowait() are single steps

\* asyncio.Queue.put(message) on a queue that is not full
put(q, message) == Append(q, message)

\* a queue that never reports to be full
full_never(items, maxsize) == FALSE

\* asyncio.Queue.full(): a queue of maxsize <= 0 is never full
full(items, maxsize) == IF maxsize <= 0 THEN FALSE ELSE Len(items) >= maxsize

\* a queue built as QueueFactory builds it, with the configured capacity
_create_queue_from_factory(cfg) == cfg.MEMORY_QUEUE_MAX_SIZE

\* EnrichmentApplication._create_queue: InMemoryQueue(), whose maxsize is 0
\* whatever the configuration says
_create_queue(cfg) == 0

\* get_nowait that returns the oldest item and leaves it in the queue
get_nowait_peek(q) ==
    IF Len(q) = 0
    THEN [raised |-> TRUE, value |-> PyNone, rest |-> q]
    ELSE [raised |-> FALSE, value |-> Head(q), rest |-> q]

\* get_nowait that removes and returns the newest item
get_nowait_newest(q) ==
    IF Len(q) = 0
    THEN [raised |-> TRUE, value |-> PyNone, rest |-> q]
    ELSE [raised |-> FALSE, value |-> q[Len(q)], rest |-> SubSeq(q, 1, Len(q) - 1)]

\* asyncio.Queue.get_nowait(): raises QueueEmpty on an empty queue, else
\* removes and returns the oldest item
get_nowait(q) ==
    IF Len(q) = 0
    THEN [raised |-> TRUE, value |-> PyNone, rest |-> q]
    ELSE [raised |-> FALSE, value |-> Head(q), rest |-> Tail(q)]

\* dequeue that reports an empty queue while one item is still waiting
dequeue_early_empty(q) ==
    LET got == get_nowait(q)
    IN  IF got.raised \/ Len(q) = 1 THEN [value |-> PyNone, rest |-> q]
        ELSE [value |-> got.value, rest |-> got.rest]

\* InMemoryQueue.dequeue(): the item, or None when QueueEmpty was raised
dequeue(q) ==
    LET got == get_nowait(q)
    IN  IF got.raised THEN [value |-> PyNone, rest |-> q]
        ELSE [value |-> got.value, rest |-> got.rest]

\* ----------------------------------------------------------- output file
PyBool(b) == [t |-> "bool", v |-> b]

\* one record of the output array: a dict of the keys that are present
ResultDict(id, success, category, description, emails, error) ==
    [t |-> "dict", v |-> [id |-> id, success |-> success, category |-> category,
                          description |-> description, emails |-> emails, error |-> error]]

FileAbsent == [kind |-> "absent", data |-> <<>>]

\* a file that json.load rejects: cut short, or not JSON at all
FileCorrupt == [kind |-> "corrupt", data |-> <<>>]

\* a file that open() refuses to read
FileUnreadable == [kind |-> "unreadable", data |-> <<>>]

\* a file holding a JSON value that is no array: type is "int", "NoneType",
\* "dict" or "str"
FileNotArray(type) == [kind |-> type, data |-> <<>>]

\* a file holding a JSON array
FileJson(array) == [kind |-> "json", data |-> array]

\* a writer that dumps every field of the result, the unset ones as null
result_dict_all_fields(result) ==
    ResultDict(PyInt(result.id), PyBool(result.success),
               IF result.success THEN PyStr(result.category.v) ELSE PyNone,
               result.description, result.emails, result.error)

\* a writer that dumps success as the number 1 or 0
result_dict_success_as_number(result) ==
    IF result.success
    THEN ResultDict(PyInt(result.id), PyInt(1), PyStr(result.category.v),
                    result.description, result.emails, Absent)
    ELSE ResultDict(PyInt(result.id), PyInt(0), Absent, Absent, Absent, result.error)

\* ResultWriter.write builds one dict per result
result_dict(result) ==
    IF result.success
    THEN ResultDict(PyInt(result.id), PyBool(TRUE), PyStr(result.category.v),
                    result.description, result.emails, Absent)
    ELSE ResultDict(PyInt(result.id), PyBool(FALSE), Absent, Absent, Absent, result.error)

output_data(results) == [i \in 1..Len(results) |-> result_dict(results[i])]

\* open(path, 'a'): the content of the file stays
open_a(file) == file

\* open(self.output_path, 'w'): the file is there and empty, which is no JSON
open_w(file) == FileCorrupt

\* json.dump(output_data, f) and the close of the file: the text of the array
\* follows what the file held, and the file is a JSON array when it held
\* nothing
json_dump(file, array) == IF file = FileCorrupt THEN FileJson(array) ELSE FileCorrupt

\* the body of _load_processed_ids up to its except clauses: the empty set
\* for a missing file; open() or json.load raises; iterating a number or
\* null raises TypeError, iterating an object or a string yields no dict;
\* on an array, the ids of the records with success is True, and r['id']
\* raises KeyError for such a record without id
_load_processed_ids_try(file) ==
    IF file.kind = "absent" THEN Return({})
    ELSE IF file.kind = "unreadable"
    THEN Raise(Exc("PermissionError", <<"Permission denied">>))
    ELSE IF file.kind = "corrupt"
    THEN Raise(Exc("JSONDecodeError", <<"Expecting value">>))
    ELSE IF file.kind \in {"int", "NoneType"}
    THEN Raise(Exc("TypeError", <<"object is not iterable">>))
    ELSE IF file.kind \in {"dict", "str"} THEN Return({})
    ELSE LET results == file.data
             hits == {i \in 1..Len(results) :
                          /\ results[i].t = "dict"
                          /\ DictGet(results[i], "success", PyNone).t = "bool"
                          /\ DictGet(results[i], "success", PyNone).v = TRUE}
         IN  IF \E i \in hits : results[i].v["id"].t = "absent"
             THEN Raise(Exc("KeyError", <<"'id'">>))
             ELSE Return({results[i].v["id"].v : i \in hits})

\* _load_processed_ids that forgets the test on success
_load_processed_ids_any_record(file) ==
    IF file.kind # "json" THEN Return({})
    ELSE LET results == file.data
             hits == {i \in 1..Len(results) : results[i].t = "dict"}
         IN  IF \E i \in hits : results[i].v["id"].t = "absent"
             THEN Return({})
             ELSE Return({results[i].v["id"].v : i \in hits})

\* _load_processed_ids that passes over a success record without id
_load_processed_ids_partial(file) ==
    IF file.kind # "json" THEN Return({})
    ELSE LET results == file.data
             hits == {i \in 1..Len(results) :
                          /\ results[i].t = "dict"
                          /\ DictGet(results[i], "success", PyNone).t = "bool"
                          /\ DictGet(results[i], "success", PyNone).v = TRUE
                          /\ results[i].v["id"].t # "absent"}
         IN  Return({results[i].v["id"].v : i \in hits})

\* _load_processed_ids without its except clauses
_load_processed_ids_uncaught(file) == _load_processed_ids_try(file)

\* EnrichmentApplication._load_processed_ids: `except json.JSONDecodeError`
\* and `except Exception` return the empty set
_load_processed_ids(file) ==
    LET tried == _load_processed_ids_try(file)
    IN  IF tried.raised /\ IsException(tried.exc) THEN Return({}) ELSE tried

\* -------------------------------------------------------- worker results
\* a hand-off that leaves the combined list in the order of the workers
SortById_skipped(results) == results

\* all_results.sort(key = lambda r: r.id): a stable sort by id
RECURSIVE SortById(_)
SortById(results) ==
    IF results = <<>> THEN <<>>
    ELSE LET rest == SortById(Tail(results))
             x == Head(results)
             before == {i \in 1..Len(rest) : rest[i].id < x.id}
             k == Cardinality(before)
         IN  SubSeq(rest, 1, k) \o <<x>> \o SubSeq(rest, k + 1, Len(rest))

\* a combination that keeps the results of the first worker only
Combine_first_only(worker_results, n) ==
    IF n = 0 THEN <<>> ELSE worker_results[1]

\* all_results.extend(results) for each worker in the order of creation
RECURSIVE Combine(_, _)
Combine(worker_results, n) ==
    IF n = 0 THEN <<>>
    ELSE Combine(worker_results, n - 1) \o worker_results[n]

\* the failure a worker synthesizes when an exception escapes the processor
\* call: EnrichmentResult(id = message.id, success = False, error = str(e))
synthesized(message, e) ==
    EnrichmentResult(message.id, FALSE, PyNone, PyNone, PyNone, PyStr(e.msg))

\* ------------------------------------------------------------------ state
VARIABLES
    output_file,        \* the file at config.OUTPUT_PATH
    messages,           \* the Message list load_dataset returned
    MAX_CONCURRENCY,    \* the configured worker pool size
    run,                \* the number of the current pipeline run
    pc,                 \* where pipeline() of the current run stands
    queue,              \* InMemoryQueue._queue
    processed_ids,      \* enqueue_messages: what _load_processed_ids returned
    next_index,         \* enqueue_messages: the message the loop is at
    worker_state,       \* per worker: where process_all stands
    worker_message,     \* per worker: the message it dequeued last
    worker_results,     \* per worker: Worker.results
    all_results,        \* start_processing: the list handed to the writer
    trace,              \* history: the queue operations of this run, in order
    succeeded_before,   \* history: ids with a successful Outcome in a completed earlier run
    config,             \* the Config values the LLM client reads
    client,             \* one call of LLMClient.generate under its retry decorator
    call,               \* one call of MessageProcessor.process
    bounded_queue,      \* an InMemoryQueue(maxsize) with the tasks that enqueue into it
    validator,          \* an LLMResponseValidator and the call of validate on it
    loader              \* a call of load_dataset and the dataset file it reads

pipeline_vars == <<output_file, messages, MAX_CONCURRENCY, run, pc, queue, processed_ids,
                   next_index, worker_state, worker_message, worker_results, all_results,
                   trace, succeeded_before>>

unit_vars == <<config, client, call, bounded_queue, validator, loader>>

vars == <<pipeline_vars, unit_vars>>

\* a pool that holds one worker when none is configured
Workers_at_least_one == 1..Max(1, MAX_CONCURRENCY)

\* the workers initialize_components creates: worker_id = i + 1
Workers == 1..MAX_CONCURRENCY

NoMessage == Message(0)

\* history events
Enqueued(id) == [op |-> "enqueue", worker |-> 0, id |-> id]

\* id = 0 records a dequeue that returned None
Dequeued(w, id) == [op |-> "dequeue", worker |-> w, id |-> id]

\* id = 1 records a health check that returned True, id = 0 one that
\* returned False
HealthChecked(ok) == [op |-> "health_check", worker |-> 0, id |-> IF ok THEN 1 ELSE 0]

\* ------------------------------------------------------------------ inputs
\* datasets: the ids 1..n in ascending and in descending order
Datasets ==
    {[i \in 1..n |-> Message(i)] : n \in 0..MaxMsgs}
        \cup {[i \in 1..n |-> Message(n + 1 - i)] : n \in 0..MaxMsgs}

T_admin == <<"A", "d", "m", "i", "n", "@", "C", "o", ".", "i", "o">>

GoodPayload ==
    PyDict(PyStr(<<"I", "n", "t", "e", "r", "n", "a", "l">>),
           PyStr(<<"S", "u", "p", "p", "o", "r", "t", " ", "c", "o", "n", "t", "a", "c", "t">>),
           PyList(<<PyStr(T_admin)>>))

\* what the service does on the request of the health check: the request
\* fails, or a response arrives with a status
HealthAnswers ==
    {[kind |-> k, status |-> 0] : k \in {"timeout", "connection_error"}}
        \cup {[kind |-> "response", status |-> st] : st \in {200, 404, 503}}

\* what generate does for one item of a pipeline run
RunGenerate ==
    {Return(GoodPayload), Raise(Exc("ConnectionError", <<"Connection refused">>))}

\* an exception that escapes loop.run_in_executor in the worker
RunEscapes == {Exc("RuntimeError", <<"cannot schedule new futures after shutdown">>)}

\* ---------------------------------------------------------------- actions
Fresh ==
    /\ pc = "init"
    /\ queue = <<>>
    /\ processed_ids = {}
    /\ next_index = 1
    /\ worker_state = <<>>
    /\ worker_message = <<>>
    /\ worker_results = <<>>
    /\ all_results = <<>>
    /\ trace = <<>>

\* Config: times are counted in quarters of a second
RETRY_BACKOFF_BASE_S == 4

RETRY_BACKOFF_MAX_S == 120

RETRY_JITTER_S == 1

\* no bounded InMemoryQueue is in use
NoQueue ==
    [maxsize |-> 0, items |-> <<>>, putters |-> <<>>, producer |-> <<>>, issued |-> {},
     returned |-> <<>>, taken |-> <<>>, last_dequeue |-> [id |-> -1, size |-> 0]]

\* LLMResponseValidator() with no call of validate under way
NoValidate ==
    [description_word_limit |-> description_word_limit, pc |-> "idle",
     llm_response |-> PyNone, result |-> Return(PyNone)]

\* no call of load_dataset is under way
NoLoad == [pc |-> "idle", file |-> [state |-> "absent", data |-> PyNone], result |-> Return(PyNone)]

\* no call of generate or of process is under way
UnitsIdle ==
    /\ config = [RETRIES |-> 3, LLM_PORT |-> 11434,
                 RETRY_BACKOFF_MAX_S |-> RETRY_BACKOFF_MAX_S,
                 MEMORY_QUEUE_MAX_SIZE |-> 0]
    /\ client = [pc |-> "idle", attempt_number |-> 0, log |-> <<>>, sleeps |-> <<>>, jitters |-> <<>>,
                 result |-> Return(PyNone)]
    /\ call = [pc |-> "idle", message |-> NoMessage, gen |-> Return(PyNone),
               log |-> <<>>, result |-> Return(PyNone)]
    /\ bounded_queue = NoQueue
    /\ validator = NoValidate
    /\ loader = NoLoad

Init ==
    /\ UnitsIdle
    /\ output_file = FileAbsent
    /\ messages \in Datasets
    /\ MAX_CONCURRENCY \in 0..MaxWorkers
    /\ run = 1
    /\ succeeded_before = {}
    /\ Fresh

\* LLMClient.health_check: requests.get and raise_for_status under
\* `except Exception: return False`
health_check(answer) == answer.kind = "response" /\ answer.status < 400

\* initialize_components that goes on whatever the health check returned
initialize_components_unchecked(healthy) ==
    /\ pc = "init"
    /\ pc' = "enqueue_messages"
    /\ worker_state' = [w \in Workers |-> "created"]
    /\ worker_message' = [w \in Workers |-> NoMessage]
    /\ worker_results' = [w \in Workers |-> <<>>]
    /\ queue' = <<>>
    /\ trace' = Append(trace, HealthChecked(healthy))
    /\ UNCHANGED <<output_file, messages, MAX_CONCURRENCY, run, processed_ids, next_index,
                   all_results, succeeded_before>>
    /\ UNCHANGED unit_vars

\* initialize_components: the queue, the health check (healthy is what it
\* returned; False raises RuntimeError, which ends pipeline()), the workers
initialize_components(healthy) ==
    /\ pc = "init"
    /\ IF ~healthy
       THEN /\ pc' = "failed"
            /\ UNCHANGED <<worker_state, worker_message, worker_results>>
       ELSE /\ pc' = "enqueue_messages"
            /\ worker_state' = [w \in Workers |-> "created"]
            /\ worker_message' = [w \in Workers |-> NoMessage]
            /\ worker_results' = [w \in Workers |-> <<>>]
    /\ queue' = <<>>
    /\ trace' = Append(trace, HealthChecked(healthy))
    /\ UNCHANGED <<output_file, messages, MAX_CONCURRENCY, run, processed_ids, next_index,
                   all_results, succeeded_before>>
    /\ UNCHANGED unit_vars

\* enqueue_messages up to its loop: processed_ids = self._load_processed_ids()
\* (an exception out of it would end pipeline()); with no message to loop
\* over it returns at once
enqueue_messages_load ==
    /\ pc = "enqueue_messages"
    /\ LET loaded == _load_processed_ids(output_file)
       IN  IF loaded.raised
           THEN /\ pc' = "failed"
                /\ UNCHANGED processed_ids
           ELSE /\ processed_ids' = loaded.value
                /\ pc' = IF Len(messages) = 0 THEN "start_processing" ELSE "enqueue_loop"
    /\ next_index' = 1
    /\ UNCHANGED <<output_file, messages, MAX_CONCURRENCY, run, queue, worker_state,
                   worker_message, worker_results, all_results, trace, succeeded_before>>
    /\ UNCHANGED unit_vars

\* one iteration of the loop of enqueue_messages; after the last one
\* enqueue_messages returns and pipeline() goes on to start_processing. On a
\* full queue put() suspends the producer until a get makes room, and no
\* worker runs yet that could
enqueue_messages_step ==
    /\ pc = "enqueue_loop"
    /\ LET message == messages[next_index]
       IN  IF message.id \notin processed_ids /\ full(queue, _create_queue(config))
           THEN /\ pc' = "enqueue_suspended"
                /\ UNCHANGED <<queue, trace, next_index>>
           ELSE /\ IF message.id \in processed_ids
                   THEN UNCHANGED <<queue, trace>>
                   ELSE /\ queue' = put(queue, message)
                        /\ trace' = Append(trace, Enqueued(message.id))
                /\ next_index' = next_index + 1
                /\ pc' = IF next_index = Len(messages) THEN "start_processing"
                         ELSE "enqueue_loop"
    /\ UNCHANGED <<output_file, messages, MAX_CONCURRENCY, run, processed_ids, worker_state,
                   worker_message, worker_results, all_results, succeeded_before>>
    /\ UNCHANGED unit_vars

\* pipeline() that does not await enqueue_messages before start_processing
enqueue_not_awaited(at) == at \in {"enqueue_loop", "start_processing"}

\* pipeline(): `await app.enqueue_messages(messages)` has returned and
\* `await app.start_processing()` is next
enqueue_awaited(at) == at = "start_processing"

\* start_processing: asyncio.create_task(worker.process_all()) for every
\* worker, then await asyncio.gather(*tasks)
start_processing ==
    /\ enqueue_awaited(pc)
    /\ worker_state' = [w \in Workers |-> "idle"]
    /\ pc' = "gather"
    /\ UNCHANGED <<output_file, messages, MAX_CONCURRENCY, run, queue, processed_ids,
                   next_index, worker_message, worker_results, all_results, trace,
                   succeeded_before>>
    /\ UNCHANGED unit_vars

\* a loop test that also takes the item of the highest id for a sentinel
message_is_None_or_sentinel(message) ==
    message.t = "NoneType" \/ message.id = MaxMsgs

\* Worker.process_all: `if message is None: break`
message_is_None(message) == message.t = "NoneType"

\* Worker.process_all: message = await self.queue.dequeue(); None ends the
\* loop, a message is handed to the executor and the worker is suspended
worker_dequeue(w) ==
    /\ pc = "gather"
    /\ worker_state[w] = "idle"
    /\ LET got == dequeue(queue)
       IN  /\ queue' = got.rest
           /\ trace' = Append(trace, Dequeued(w, IF got.value.t = "NoneType" THEN 0
                                                 ELSE got.value.id))
           /\ IF message_is_None(got.value)
              THEN /\ worker_state' = [worker_state EXCEPT ![w] = "drained"]
                   /\ UNCHANGED worker_message
              ELSE /\ worker_state' = [worker_state EXCEPT ![w] = "processing"]
                   /\ worker_message' = [worker_message EXCEPT ![w] = got.value]
    /\ UNCHANGED <<output_file, messages, MAX_CONCURRENCY, run, pc, processed_ids,
                   next_index, worker_results, all_results, succeeded_before>>
    /\ UNCHANGED unit_vars

\* Worker.process_all: the executor call ends with what process did (an
\* exception out of it is turned into a synthesized failure),
\* self.results.append(result), await asyncio.sleep(0)
worker_processed(w, gen) ==
    /\ pc = "gather"
    /\ worker_state[w] = "processing"
    /\ LET result == process(worker_message[w], gen)
       IN  worker_results' = [worker_results EXCEPT
                                  ![w] = Append(@, IF result.raised /\ IsException(result.exc)
                                                   THEN synthesized(worker_message[w], result.exc)
                                                   ELSE result.value)]
    /\ worker_state' = [worker_state EXCEPT ![w] = "idle"]
    /\ UNCHANGED <<output_file, messages, MAX_CONCURRENCY, run, pc, queue, processed_ids,
                   next_index, worker_message, all_results, trace, succeeded_before>>
    /\ UNCHANGED unit_vars

\* a worker without the except clause around the executor call
worker_catches_nothing(e) == FALSE

\* Worker.process_all: `except Exception as e` around the executor call
worker_catches(e) == IsException(e)

\* Worker.process_all: the executor call raises; the worker synthesizes a
\* failure result, appends it and goes on; an exception it does not catch
\* ends its task, and with it gather and pipeline()
worker_escaped(w, e) ==
    /\ pc = "gather"
    /\ worker_state[w] = "processing"
    /\ IF worker_catches(e)
       THEN /\ worker_results' = [worker_results EXCEPT
                                      ![w] = Append(@, synthesized(worker_message[w], e))]
            /\ worker_state' = [worker_state EXCEPT ![w] = "idle"]
            /\ UNCHANGED pc
       ELSE /\ worker_state' = [worker_state EXCEPT ![w] = "crashed"]
            /\ pc' = "failed"
            /\ UNCHANGED worker_results
    /\ UNCHANGED <<output_file, messages, MAX_CONCURRENCY, run, queue, processed_ids,
                   next_index, worker_message, all_results, trace, succeeded_before>>
    /\ UNCHANGED unit_vars

\* a wait that ends as soon as one process_all has returned
gather_first_completed(states) ==
    \E w \in DOMAIN states : states[w] = "drained"

\* await asyncio.gather(*tasks): every process_all has returned
gather(states) ==
    \A w \in DOMAIN states : states[w] = "drained"

\* start_processing after gather: combine, sort by id, and enter
\* ResultWriter.write, whose open(path, 'w') empties the file
gathered ==
    /\ pc = "gather"
    /\ gather(worker_state)
    /\ all_results' = SortById(Combine(worker_results, MAX_CONCURRENCY))
    /\ output_file' = open_w(output_file)
    /\ pc' = "write"
    /\ UNCHANGED <<messages, MAX_CONCURRENCY, run, queue, processed_ids, next_index,
                   worker_state, worker_message, worker_results, trace, succeeded_before>>
    /\ UNCHANGED unit_vars

\* ResultWriter.write: json.dump(output_data, f) and the file is closed
write ==
    /\ pc = "write"
    /\ output_file' = json_dump(output_file, output_data(all_results))
    /\ pc' = "done"
    /\ UNCHANGED <<messages, MAX_CONCURRENCY, run, queue, processed_ids, next_index,
                   worker_state, worker_message, worker_results, all_results, trace,
                   succeeded_before>>
    /\ UNCHANGED unit_vars

Running == pc \in {"init", "enqueue_messages", "enqueue_loop", "enqueue_suspended",
                   "start_processing", "gather", "write"}

\* the process is killed from outside: its memory is gone, the file stays
killed ==
    /\ Running
    /\ pc' = "killed"
    /\ queue' = <<>>
    /\ processed_ids' = {}
    /\ next_index' = 1
    /\ worker_state' = <<>>
    /\ worker_message' = <<>>
    /\ worker_results' = <<>>
    /\ all_results' = <<>>
    /\ trace' = <<>>
    /\ UNCHANGED <<output_file, messages, MAX_CONCURRENCY, run, succeeded_before>>
    /\ UNCHANGED unit_vars

\* the pipeline is run again over the same input and output path
run_again ==
    /\ pc \in {"done", "killed", "failed"}
    /\ run < MaxRuns
    /\ run' = run + 1
    /\ succeeded_before' =
           IF pc = "done"
           THEN succeeded_before \cup {all_results[i].id :
                                           i \in {j \in 1..Len(all_results) : all_results[j].success}}
           ELSE succeeded_before
    /\ pc' = "init"
    /\ queue' = <<>>
    /\ processed_ids' = {}
    /\ next_index' = 1
    /\ worker_state' = <<>>
    /\ worker_message' = <<>>
    /\ worker_results' = <<>>
    /\ all_results' = <<>>
    /\ trace' = <<>>
    /\ UNCHANGED <<output_file, messages, MAX_CONCURRENCY>>
    /\ UNCHANGED unit_vars

Next ==
    \/ \E answer \in HealthAnswers : initialize_components(health_check(answer))
    \/ enqueue_messages_load
    \/ enqueue_messages_step
    \/ start_processing
    \/ \E w \in Workers : worker_dequeue(w)
    \/ \E w \in Workers : \E gen \in RunGenerate : worker_processed(w, gen)
    \/ \E w \in Workers : \E e \in RunEscapes : worker_escaped(w, e)
    \/ gathered
    \/ write
    \/ killed
    \/ run_again

Spec == Init /\ [][Next]_vars

\* ------------------------------------------------------ pipeline properties
\* the ids this run enqueued, in order
RECURSIVE EnqueuedIds(_)
EnqueuedIds(t) ==
    IF t = <<>> THEN <<>>
    ELSE IF Head(t).op = "enqueue" THEN <<Head(t).id>> \o EnqueuedIds(Tail(t))
    ELSE EnqueuedIds(Tail(t))

\* the dequeue events of this run that returned the item with this id
Deliveries(id) == {k \in 1..Len(trace) : trace[k].op = "dequeue" /\ trace[k].id = id}

\* the dequeue events of this run, whatever they returned
DequeueCalls == {k \in 1..Len(trace) : trace[k].op = "dequeue"}

\* the input in its order without the items of the ids in skip
RECURSIVE Without(_, _)
Without(msgs, skip) ==
    IF msgs = <<>> THEN <<>>
    ELSE IF Head(msgs).id \in skip THEN Without(Tail(msgs), skip)
    ELSE <<Head(msgs).id>> \o Without(Tail(msgs), skip)

Handed == pc \in {"write", "done"}

\* C1: with K >= 1 workers the sequence handed to the result writer has
\* exactly one Outcome for each enqueued item, and nothing else, whatever the
\* interleaving of the workers and whether the items succeed or fail
C1_Completeness ==
    (Handed /\ MAX_CONCURRENCY >= 1) =>
        /\ Len(all_results) = Len(EnqueuedIds(trace))
        /\ \A id \in Range(EnqueuedIds(trace)) :
               Cardinality({j \in 1..Len(all_results) : all_results[j].id = id}) = 1

\* C1 witness: two workers shared three items, some succeeded and some failed
C1_Witness ==
    /\ pc = "done"
    /\ MAX_CONCURRENCY = 2
    /\ Len(all_results) = 3
    /\ \A w \in Workers : Len(worker_results[w]) >= 1
    /\ \E j \in 1..3 : all_results[j].success
    /\ \E j \in 1..3 : ~all_results[j].success

\* C2: no item is returned by dequeue more than once, to any worker
C2_SingleDelivery ==
    \A i \in 1..Len(messages) : Cardinality(Deliveries(messages[i].id)) <= 1

\* C2 witness: both workers raced on a queue of three items and each of them
\* got an item
C2_Witness ==
    /\ Len(EnqueuedIds(trace)) = 3
    /\ \A id \in Range(EnqueuedIds(trace)) : Cardinality(Deliveries(id)) = 1
    /\ \E j \in DequeueCalls : \E k \in DequeueCalls :
           trace[j].worker = 1 /\ trace[k].worker = 2 /\ trace[j].id > 0 /\ trace[k].id > 0

\* C9: when the first dequeue is performed every item that passed the resume
\* filter has been enqueued, and no enqueue follows a dequeue
C9_PhasedEnqueueThenDrain ==
    /\ DequeueCalls # {} => EnqueuedIds(trace) = Without(messages, processed_ids)
    /\ \A j \in 1..Len(trace) : \A k \in 1..Len(trace) :
           (j < k /\ trace[j].op = "dequeue") => trace[k].op = "dequeue"

\* C9 witness: a resumed run skipped one item, enqueued two and a worker has
\* dequeued
C9_Witness ==
    /\ run > 1
    /\ Len(messages) = 3
    /\ Len(EnqueuedIds(trace)) = 2
    /\ \E k \in DequeueCalls : trace[k].id > 0

\* C10: once a worker is drained, every item that passed the resume filter
\* has been dequeued by some worker
C10_NoPrematureExit ==
    \A w \in DOMAIN worker_state :
        worker_state[w] = "drained" =>
            \A id \in Range(Without(messages, processed_ids)) : Deliveries(id) # {}

\* C10 witness: one worker is drained while the other still processes the
\* last of three items
C10_Witness ==
    /\ MAX_CONCURRENCY = 2
    /\ Len(EnqueuedIds(trace)) = 3
    /\ \E w \in Workers : \E v \in Workers :
           /\ worker_state[w] = "drained"
           /\ worker_state[v] = "processing"
           /\ Len(worker_results[w]) >= 1

\* the last event of the history after a step that added one
LastEvent == trace'[Len(trace')]

\* this step is a dequeue call of worker w
DequeueStepOf(w) ==
    /\ Len(trace') = Len(trace) + 1
    /\ LastEvent.op = "dequeue"
    /\ LastEvent.worker = w

\* C11: a worker goes from idle through its dequeue to processing and back
\* to idle; it is drained exactly when its dequeue returned None, whatever
\* the number of items it handled and whether they failed; a drained worker
\* stays drained and makes no further dequeue call
C11_WorkerStateMachine ==
    [][\A w \in (DOMAIN worker_state) \cap (DOMAIN worker_state') :
           LET a == worker_state[w]
               b == worker_state'[w]
           IN  /\ a # b =>
                      \/ a = "created" /\ b = "idle"
                      \/ a = "idle" /\ b = "processing" /\ DequeueStepOf(w) /\ LastEvent.id > 0
                      \/ a = "idle" /\ b = "drained" /\ DequeueStepOf(w) /\ LastEvent.id = 0
                      \/ /\ a = "processing" /\ b = "idle"
                         /\ Len(worker_results'[w]) = Len(worker_results[w]) + 1
               /\ DequeueStepOf(w) =>
                      /\ a = "idle"
                      /\ b = IF LastEvent.id = 0 THEN "drained" ELSE "processing"
               /\ a = "drained" => b = "drained"]_vars

\* C11 witness: a worker whose first item failed handled a second item and
\* was drained by a dequeue that returned None
C11_Witness ==
    \E w \in DOMAIN worker_state :
        /\ worker_state[w] = "drained"
        /\ Len(worker_results[w]) >= 2
        /\ ~worker_results[w][1].success
        /\ trace[Len(trace)] = Dequeued(w, 0)

\* the number of results of id i in a list
CountOf(results, i) == Cardinality({j \in 1..Len(results) : results[j].id = i})

\* C13: the list handed to the result writer holds the results of all the
\* workers, each as often as the workers hold it, in ascending order of id,
\* whatever the order in which the workers finished their items
C13_FinalOrdering ==
    Handed =>
        /\ \A j \in 1..(Len(all_results) - 1) : all_results[j].id <= all_results[j + 1].id
        /\ LET combined == Combine(worker_results, MAX_CONCURRENCY)
           IN  /\ Len(all_results) = Len(combined)
               /\ \A j \in 1..Len(combined) :
                      /\ CountOf(all_results, combined[j].id) = CountOf(combined, combined[j].id)
                      /\ \E k \in 1..Len(all_results) : all_results[k] = combined[j]

\* C13 witness: the first worker finished item 3 and the second worker
\* items 1 and 2, so the concatenation 3, 1, 2 was not in order
C13_Witness ==
    /\ pc = "done"
    /\ MAX_CONCURRENCY = 2
    /\ Len(worker_results[1]) = 1
    /\ worker_results[1][1].id = 3
    /\ Len(worker_results[2]) = 2
    /\ Len(all_results) = 3
    /\ all_results[1].id = 1

\* C14: within a run the output file changes only once every worker is
\* drained: start_processing opens it for writing and dumps the whole list
\* of this run, which replaces whatever the file held; no other step, and so
\* no run killed before that, changes the file
C14_AllOrNothingPersistence ==
    [][/\ output_file' # output_file =>
              \/ /\ pc = "gather" /\ pc' = "write"
                 /\ \A w \in Workers : worker_state[w] = "drained"
              \/ /\ pc = "write" /\ pc' = "done"
                 /\ \A w \in Workers : worker_state[w] = "drained"
                 /\ output_file' = FileJson(output_data(all_results))
       /\ (pc' = "done" /\ pc # "done") =>
              /\ pc = "write"
              /\ output_file' = FileJson(output_data(all_results))
       /\ (pc' = "killed" /\ pc # "write") => output_file' = output_file]_vars

\* C14 witness: in a second run one worker has a result and another is
\* still processing, and the file still holds the records of the first run
C14_Witness ==
    /\ pc = "gather"
    /\ run = 2
    /\ \E w \in Workers : worker_state[w] = "processing"
    /\ \E w \in Workers : Len(worker_results[w]) >= 1
    /\ output_file.kind = "json"
    /\ Len(output_file.data) >= 2

\* C15: when the health check returned False the run has failed in
\* initialize_components: nothing is or was enqueued or dequeued, no worker
\* exists, no item was processed (so generate was not called), and the step
\* that fails and every step from there leave the output file as it is
C15_StartupFailureFatal ==
    /\ [](\A k \in 1..Len(trace) :
              trace[k] = HealthChecked(FALSE) =>
                  /\ pc = "failed"
                  /\ Len(trace) = 1
                  /\ queue = <<>>
                  /\ worker_state = <<>>
                  /\ worker_results = <<>>
                  /\ all_results = <<>>)
    /\ [][(pc' = "failed" \/ pc = "failed") => output_file' = output_file]_vars

\* C15 witness: the first run wrote its records; in the second run over
\* three input items the service answered 503 to the health check
C15_Witness ==
    /\ pc = "failed"
    /\ run = 2
    /\ Len(messages) = 3
    /\ trace = <<HealthChecked(FALSE)>>
    /\ output_file.kind = "json"
    /\ Len(output_file.data) = 3

\* C17: the step that ends the processing of an item, with a result or
\* with an exception out of the executor call, appends one result of that
\* item's id to the worker's list and takes the worker back to its next
\* dequeue; it leaves the queue, the other workers and the run as they are;
\* and the list handed over has a result for every enqueued item
C17_FaultIsolation ==
    /\ [][\A w \in (DOMAIN worker_state) \cap (DOMAIN worker_state') :
              (worker_state[w] = "processing" /\ worker_state'[w] # "processing") =>
                  /\ worker_state'[w] = "idle"
                  /\ Len(worker_results'[w]) = Len(worker_results[w]) + 1
                  /\ worker_results'[w][Len(worker_results'[w])].id = worker_message[w].id
                  /\ SubSeq(worker_results'[w], 1, Len(worker_results[w])) = worker_results[w]
                  /\ queue' = queue
                  /\ pc' = pc
                  /\ \A v \in (DOMAIN worker_state) \ {w} :
                         /\ worker_state'[v] = worker_state[v]
                         /\ worker_results'[v] = worker_results[v]]_vars
    /\ []((Handed /\ MAX_CONCURRENCY >= 1) =>
              \A id \in Range(EnqueuedIds(trace)) : CountOf(all_results, id) = 1)

\* C17 witness: of three items one failed in the processor and one by an
\* exception out of the executor call; the worker that met the first failure
\* went on to another item, and all three items have their result
C17_Witness ==
    /\ pc = "done"
    /\ MAX_CONCURRENCY = 2
    /\ Len(all_results) = 3
    /\ \E w \in Workers :
           /\ Len(worker_results[w]) >= 2
           /\ ~worker_results[w][1].success
    /\ \E j \in 1..3 : all_results[j].success
    /\ \E j \in 1..3 :
           /\ ~all_results[j].success
           /\ all_results[j].error.v = <<"Processing error: ", "Connection refused">>
    /\ \E j \in 1..3 :
           /\ ~all_results[j].success
           /\ all_results[j].error.v = <<"cannot schedule new futures after shutdown">>

\* the results the workers hold and the list handed to the writer
Outcomes ==
    UNION {Range(worker_results[w]) : w \in DOMAIN worker_results} \cup Range(all_results)

\* C18: every result a worker holds, from the processor or synthesized by
\* the worker, has category, description and emails set and no error when
\* success is true, and an error and none of the three when success is
\* false; every record of the written file has the keys category,
\* description and emails and no key error when success is true, and the key
\* error and none of the three when success is false
C18_OutcomeShape ==
    /\ \A r \in Outcomes :
           IF r.success
           THEN /\ r.category.t = "Category" /\ r.description.t = "str"
                /\ r.emails.t = "list" /\ r.error.t = "NoneType"
           ELSE /\ r.category.t = "NoneType" /\ r.description.t = "NoneType"
                /\ r.emails.t = "NoneType" /\ r.error.t = "str"
    /\ output_file.kind = "json" =>
           \A j \in 1..Len(output_file.data) :
               LET d == output_file.data[j].v
               IN  /\ d.id.t = "int" /\ d.success.t = "bool"
                   /\ IF d.success.v
                      THEN /\ d.category.t = "str" /\ d.description.t = "str"
                           /\ d.emails.t = "list" /\ d.error.t = "absent"
                      ELSE /\ d.category.t = "absent" /\ d.description.t = "absent"
                           /\ d.emails.t = "absent" /\ d.error.t = "str"

\* C18 witness: the written file holds a success record, the failure
\* record of a processor failure and the failure record a worker synthesized
C18_Witness ==
    /\ pc = "done"
    /\ output_file.kind = "json"
    /\ Len(output_file.data) = 3
    /\ \E j \in 1..3 : output_file.data[j].v.success.v
    /\ \E j \in 1..3 :
           /\ ~output_file.data[j].v.success.v
           /\ output_file.data[j].v.error.v = <<"Processing error: ", "Connection refused">>
    /\ \E j \in 1..3 :
           /\ ~output_file.data[j].v.success.v
           /\ output_file.data[j].v.error.v = <<"cannot schedule new futures after shutdown">>

\* one run that nothing kills, under the scheduling of the event loop: a
\* task that is ready to run is run, and a call handed to the executor ends
NextDrain ==
    \/ \E answer \in HealthAnswers : initialize_components(health_check(answer))
    \/ enqueue_messages_load
    \/ enqueue_messages_step
    \/ start_processing
    \/ \E w \in Workers : worker_dequeue(w)
    \/ \E w \in Workers : \E gen \in RunGenerate : worker_processed(w, gen)
    \/ \E w \in Workers : \E e \in RunEscapes : worker_escaped(w, e)
    \/ gathered
    \/ write

SpecDrain ==
    /\ Init
    /\ [][NextDrain]_vars
    /\ WF_vars(start_processing)
    /\ \A w \in 1..MaxWorkers :
           /\ WF_vars(w \in Workers /\ worker_dequeue(w))
           /\ WF_vars(/\ w \in Workers
                      /\ \/ \E e \in RunEscapes : worker_escaped(w, e)
                         \/ \E gen \in RunGenerate : worker_processed(w, gen))
    /\ WF_vars(gathered)
    /\ WF_vars(write)

\* C12: with at least one worker, once enqueue_messages has returned every
\* worker is eventually drained and start_processing returns, and the queue
\* is empty then
C12_DrainLiveness ==
    (pc = "start_processing" /\ MAX_CONCURRENCY >= 1) ~>
        (/\ pc = "done"
         /\ \A w \in Workers : worker_state[w] = "drained"
         /\ queue = <<>>)

\* C12 witness: start_processing returned after two workers drained a
\* queue of three items
C12_Witness ==
    /\ pc = "done"
    /\ MAX_CONCURRENCY = 2
    /\ Len(EnqueuedIds(trace)) = 3
    /\ Len(all_results) = 3
    /\ \A w \in Workers : worker_state[w] = "drained"
    /\ queue = <<>>

\* C3: an item that obtained a successful Outcome in a completed earlier run
\* is not enqueued again in a later run, and an item that never obtained one
\* (it failed, or was never attempted) is enqueued in the next run
C3_IdempotentResume ==
    /\ \A id \in Range(EnqueuedIds(trace)) : id \notin succeeded_before
    /\ pc \in {"start_processing", "gather", "write", "done"} =>
           \A i \in 1..Len(messages) :
               messages[i].id \notin succeeded_before =>
                   messages[i].id \in Range(EnqueuedIds(trace))

\* ------------------------------------------------------- the resume filter
\* enqueue_messages over any prior output file: the file is missing, cannot
\* be read, is not JSON, holds a JSON value that is no array, or holds a JSON
\* array whose entries are records with or without an id, successful or
\* failed, or are no records at all
PriorEntries ==
    {ResultDict(id, PyBool(ok), Absent, Absent, Absent, Absent) :
         id \in {Absent} \cup {PyInt(n) : n \in 1..MaxMsgs}, ok \in BOOLEAN}
        \cup {PyStr(<<"x">>)}

PriorFiles ==
    {FileAbsent, FileCorrupt, FileUnreadable}
        \cup {FileNotArray(type) : type \in {"int", "NoneType", "dict", "str"}}
        \cup UNION {{FileJson(a) : a \in [1..n -> PriorEntries]} : n \in 0..MaxPrior}

\* every list of messages with distinct ids in 1..MaxMsgs, in any order
AnyOrderDatasets ==
    UNION {{m \in [1..n -> {Message(i) : i \in 1..MaxMsgs}] :
                \A j \in 1..n : \A k \in 1..n : m[j] = m[k] => j = k} : n \in 0..MaxMsgs}

InitResume ==
    /\ UnitsIdle
    /\ output_file \in PriorFiles
    /\ messages \in AnyOrderDatasets
    /\ MAX_CONCURRENCY = 1
    /\ run = 1
    /\ succeeded_before = {}
    /\ Fresh

NextResume ==
    \/ \E answer \in HealthAnswers : initialize_components(health_check(answer))
    \/ enqueue_messages_load
    \/ enqueue_messages_step

SpecResume == InitResume /\ [][NextResume]_vars

\* the ids of the entries of the prior output that are records with
\* success = true and an id
PriorSuccessIds(file) ==
    IF file.kind # "json" THEN {}
    ELSE {file.data[i].v["id"].v :
              i \in {j \in 1..Len(file.data) :
                         /\ file.data[j].t = "dict"
                         /\ file.data[j].v["success"] = PyBool(TRUE)
                         /\ file.data[j].v["id"].t = "int"}}

\* some record has success = true and no id
SuccessWithoutId(file) ==
    /\ file.kind = "json"
    /\ \E j \in 1..Len(file.data) :
           /\ file.data[j].t = "dict"
           /\ file.data[j].v["success"] = PyBool(TRUE)
           /\ file.data[j].v["id"].t = "absent"

QueueIds == [i \in 1..Len(queue) |-> queue[i].id]

EnqueueReturned == pc = "start_processing"

\* C4 as stated: enqueue_messages enqueues exactly the input items whose id
\* is not the id of a prior record with success = true, in input order
C4_FilterAsStated ==
    EnqueueReturned =>
        /\ EnqueuedIds(trace) = Without(messages, PriorSuccessIds(output_file))
        /\ QueueIds = EnqueuedIds(trace)

\* C4 amended: the same, provided no prior record with success = true lacks
\* its id; when one does, every input item is enqueued
C4_ResumeFilter ==
    EnqueueReturned =>
        /\ EnqueuedIds(trace) =
               IF SuccessWithoutId(output_file)
               THEN Without(messages, {})
               ELSE Without(messages, PriorSuccessIds(output_file))
        /\ QueueIds = EnqueuedIds(trace)

\* C4 witness: the prior output holds a successful record of id 3 and a
\* failed record of id 2; of the input 3, 2, 1 the items 2 and 1 are enqueued
C4_Witness ==
    /\ EnqueueReturned
    /\ output_file = FileJson(<<ResultDict(PyInt(3), PyBool(TRUE), Absent, Absent, Absent, Absent),
                                ResultDict(PyInt(2), PyBool(FALSE), Absent, Absent, Absent, Absent)>>)
    /\ messages = <<Message(3), Message(2), Message(1)>>
    /\ QueueIds = <<2, 1>>

\* the prior output cannot be used: it is missing, unreadable, not valid
\* JSON, no JSON array, or an array with a success record that has no id
\* (an array whose records are well formed is filtered as C4 says, whatever
\* other entries stand beside them)
Malformed(file) == file.kind # "json" \/ SuccessWithoutId(file)

T_spam == <<"s", "p", "a", "m">>

T_a_b_io == <<"a", "@", "b", ".", "i", "o">>

\* what the client hands to process: failures of every kind the retry
\* decorator lets through, a null, payloads that are no dict, and dicts with a
\* category that is valid, differs in case, is unknown, empty, null, no
\* string or absent
ClientFailures ==
    {Exc("Timeout", <<"Read timed out">>),
     Exc("ConnectionError", <<"Connection refused">>),
     Exc("RequestException", <<"Retryable HTTP status: ", "5", "0", "3">>),
     Exc("HTTPError", <<"4", "0", "4", " Client Error: Not Found for url: x">>),
     Exc("ValueError", <<"LLM returned empty response">>),
     Exc("JSONDecodeError", <<"Expecting value: line ", "1", " column ", "1">>),
     Exc("RuntimeError", <<>>)}

CategoryInputs ==
    {Absent, PyNone, PyInt(7), PyStr(<<>>), PyStr(T_spam), PyStr(T_phishing),
     PyStr(<<" ", "N", "e", "w", "s", "l", "e", "t", "t", "e", "r", " ">>),
     PyStr(<<"I", "N", "T", "E", "R", "N", "A", "L">>)}

\* twenty-seven words, the separators alternating between one and two spaces
LongDescription ==
    [i \in 1..80 |-> IF i % 3 = 1 THEN LowerLetters[(((i - 1) \div 6) % 26) + 1]
                     ELSE IF i % 6 = 3 THEN "x" ELSE " "]

DescriptionInputs ==
    {Absent, PyNone, PyStr(<<" ", "a", " ", " ", "b", " ">>),
     PyStr(<<"a", "\t", "b", " ", " ", "c", "\n">>), PyStr(LongDescription)}

EmailInputs ==
    {Absent, PyStr(T_a_b_io),
     PyList(<<PyStr(T_admin), PyStr(T_a_b_io), PyInt(3), PyStr(T_admin),
              PyStr(<<"a", "@", "@", "b", ".", "i", "o">>),
              PyStr(<<"a", "@", "b", ".", ".", "i", "o">>)>>),
     PyList(<<PyStr(<<" ", "z", "@", "B", ".", "i", "o", " ">>),
              PyStr(<<"Z", "@", "b", ".", "I", "O">>),
              PyStr(<<"z", "@", "b", ".", "i", "o">>),
              PyStr(<<"a", ".", ".", "b", "@", "c", ".", "i", "o">>),
              PyStr(<<"m", "_", "1", "@", "c", "-", "d", ".", "i", "o">>)>>)}

ClientReturns ==
    {PyNone, PyList(<<>>), PyStr(T_spam)}
        \cup {PyDict(c, d, e) : c \in CategoryInputs, d \in DescriptionInputs, e \in EmailInputs}

ProcessInputs == {Raise(e) : e \in ClientFailures} \cup {Return(v) : v \in ClientReturns}

InitProcess ==
    /\ output_file = FileAbsent
    /\ messages = <<>>
    /\ MAX_CONCURRENCY = 1
    /\ run = 1
    /\ succeeded_before = {}
    /\ Fresh
    /\ config = [RETRIES |-> 3, LLM_PORT |-> 11434,
                 RETRY_BACKOFF_MAX_S |-> RETRY_BACKOFF_MAX_S,
                 MEMORY_QUEUE_MAX_SIZE |-> 0]
    /\ client = [pc |-> "idle", attempt_number |-> 0, log |-> <<>>, sleeps |-> <<>>, jitters |-> <<>>,
                 result |-> Return(PyNone)]
    /\ \E id \in 1..MaxMsgs : \E gen \in ProcessInputs :
           call = [pc |-> "called", message |-> Message(id), gen |-> gen,
                   log |-> <<>>, result |-> Return(PyNone)]
    /\ bounded_queue = NoQueue
    /\ validator = NoValidate
    /\ loader = NoLoad

\* a processor that hands whatever generate returned to the validator
calls_validator_on_null(gen) == ~gen.raised

\* MessageProcessor.process: validator.validate(llm_response) is reached
\* when generate returned and `llm_response is None` is false
calls_validator(gen) == ~gen.raised /\ gen.value.t # "NoneType"

\* MessageProcessor.process calls llm_client.generate(prompt); unless the
\* validator is next, it runs to its end: it returns or an exception leaves it
process_generate ==
    /\ call.pc = "called"
    /\ LET result == process(call.message, call.gen)
           log == Append(call.log, "generate")
       IN  IF calls_validator(call.gen)
           THEN call' = [call EXCEPT !.pc = "validate", !.log = log]
           ELSE call' = [call EXCEPT !.pc = IF result.raised THEN "raised" ELSE "returned",
                                     !.log = log, !.result = result]
    /\ UNCHANGED <<pipeline_vars, config, client, bounded_queue, validator, loader>>

\* MessageProcessor.process calls validator.validate(llm_response) and runs
\* to its end
process_validate ==
    /\ call.pc = "validate"
    /\ LET result == process(call.message, call.gen)
       IN  call' = [call EXCEPT !.pc = IF result.raised THEN "raised" ELSE "returned",
                                !.log = Append(@, "validate"), !.result = result]
    /\ UNCHANGED <<pipeline_vars, config, client, bounded_queue, validator, loader>>

NextProcess ==
    \/ process_generate
    \/ process_validate

SpecProcess == InitProcess /\ [][NextProcess]_vars

\* the call took a failure path: generate raised, generate returned null,
\* or the validator raised
FailurePath(gen) ==
    \/ gen.raised
    \/ gen.value.t = "NoneType"
    \/ validate(gen.value).raised

\* the number of characters of a text
RECURSIVE TextLen(_)
TextLen(text) ==
    IF text = <<>> THEN 0
    ELSE (IF Head(text) = "" THEN 0 ELSE 1) + TextLen(Tail(text))

\* C5: process always returns an Outcome carrying the id of the item and
\* never lets an exception out; on every failure path the Outcome has
\* success = false and a non-empty error
C5_ProcessorTotalCatch ==
    call.pc \notin {"called", "validate"} =>
        /\ call.pc = "returned"
        /\ ~call.result.raised
        /\ call.result.value.id = call.message.id
        /\ FailurePath(call.gen) =>
               /\ call.result.value.success = FALSE
               /\ call.result.value.error.t = "str"
               /\ TextLen(call.result.value.error.v) > 0

\* C5 witness: generate returned a dict, the validator raised on its
\* category, and process returned the failed Outcome of item 2
C5_Witness ==
    /\ call.pc = "returned"
    /\ ~call.gen.raised
    /\ call.gen.value.t = "dict"
    /\ validate(call.gen.value).raised
    /\ call.message.id = 2
    /\ ~call.result.value.success

\* the number of calls of one kind a call of process has made
CallsOf(kind) == Cardinality({k \in 1..Len(call.log) : call.log[k] = kind})

\* C19: a call of process calls generate once, first, and never again; it
\* calls the validator at most once, after generate returned a payload that
\* is not null; when generate raised or returned null the validator is not
\* called, and after the validator nothing more is called
C19_ProcessorCallProtocol ==
    /\ CallsOf("generate") <= 1
    /\ CallsOf("validate") <= 1
    /\ call.log # <<>> => call.log[1] = "generate"
    /\ CallsOf("validate") = 1 =>
           /\ call.log = <<"generate", "validate">>
           /\ ~call.gen.raised
           /\ call.gen.value.t # "NoneType"
    /\ call.pc \in {"returned", "raised"} =>
           /\ CallsOf("generate") = 1
           /\ (call.gen.raised \/ call.gen.value.t = "NoneType") => call.log = <<"generate">>

\* C19 witness: generate returned a dict, the validator was called once
\* and raised on the category, and process returned the failure without a
\* second call of generate
C19_Witness ==
    /\ call.pc = "returned"
    /\ call.log = <<"generate", "validate">>
    /\ ~call.gen.raised
    /\ call.gen.value.t = "dict"
    /\ validate(call.gen.value).raised
    /\ ~call.result.value.success

\* ------------------------------------------------------------- LLM client
RETRY_STATUS_CODES == {429, 500, 502, 503, 504}

\* the values of LLM_URL (the port of http://localhost:<port>) and of RETRIES
\* a run may be configured with; int(os.getenv("RETRIES")) may be negative
Configs ==
    [RETRIES : -1..MaxRetries, LLM_PORT : {11434, 5000},
     RETRY_BACKOFF_MAX_S : {RETRY_BACKOFF_MAX_S, 6}, MEMORY_QUEUE_MAX_SIZE : {0}]

\* self.endpoint = f"{self.base_url}/api/generate"
endpoint(cfg) == <<"http://localhost:">> \o IntToStr(cfg.LLM_PORT) \o <<"/api/generate">>

\* the classes an exception class derives from
Bases(cls) ==
    CASE cls = "Timeout" -> {"RequestException", "OSError"}
      [] cls = "ConnectionError" -> {"RequestException", "OSError"}
      [] cls = "HTTPError" -> {"RequestException", "OSError"}
      [] cls = "RequestsJSONDecodeError" ->
             {"RequestException", "OSError", "JSONDecodeError", "ValueError"}
      [] cls = "JSONDecodeError" -> {"ValueError"}
      [] cls = "RequestException" -> {"OSError"}
      [] OTHER -> {}

\* isinstance(exc, classes)
IsInstance(exc, classes) == exc.cls \in classes \/ Bases(exc.cls) \cap classes # {}

\* _is_retryable_exception: str(code) in str(exc) is a substring test
_is_retryable_exception(exc) ==
    IF IsInstance(exc, {"Timeout", "ConnectionError", "JSONDecodeError", "ValueError"})
    THEN TRUE
    ELSE IF IsInstance(exc, {"RequestException"})
    THEN \E code \in RETRY_STATUS_CODES : Contains(IntToStr(code), exc.msg)
    ELSE FALSE

\* what the service does on one request: the request fails to be sent or
\* answered, or a response arrives with a status and a body
Transports ==
    {[kind |-> k, status |-> 0, body |-> "none"] :
         k \in {"timeout", "connection_error"}}
        \cup {[kind |-> "response", status |-> st, body |-> "none"] : st \in {400, 404, 503}}
        \cup {[kind |-> "response", status |-> 200, body |-> b] :
                  b \in {"not_json", "not_a_dict", "empty", "inner_not_json", "inner_null",
                         "payload"}}

\* the reason phrase of a status line
Reason(status) ==
    CASE status = 400 -> "Bad Request"
      [] status = 404 -> "Not Found"
      [] OTHER -> "Error"

\* the body of LLMClient.generate: one request and the parsing of its answer
generate_once(cfg, transport) ==
    CASE transport.kind = "timeout" ->
             Raise(Exc("Timeout", <<"Read timed out">>))
      [] transport.kind = "connection_error" ->
             Raise(Exc("ConnectionError", <<"Connection refused">>))
      [] OTHER ->
             IF transport.status \in RETRY_STATUS_CODES
             THEN Raise(Exc("RequestException",
                            <<"Retryable HTTP status: ">> \o IntToStr(transport.status)))
             ELSE IF transport.status >= 400 /\ transport.status < 600
             THEN Raise(Exc("HTTPError",
                            IntToStr(transport.status)
                                \o <<IF transport.status < 500 THEN " Client Error: "
                                                               ELSE " Server Error: ",
                                     Reason(transport.status), " for url: ">>
                                \o endpoint(cfg)))
             ELSE CASE transport.body = "not_json" ->
                           Raise(Exc("RequestsJSONDecodeError", <<"Expecting value">>))
                    [] transport.body = "not_a_dict" ->
                           Raise(Exc("AttributeError",
                                     <<"'list' object has no attribute 'get'">>))
                    [] transport.body = "empty" ->
                           Raise(Exc("ValueError", <<"LLM returned empty response">>))
                    [] transport.body = "inner_not_json" ->
                           Raise(Exc("JSONDecodeError", <<"Expecting value">>))
                    [] transport.body = "inner_null" -> Return(PyNone)
                    [] OTHER -> Return(GoodPayload)

\* stop_after_attempt(max(1, config.RETRIES + 1)) with > in place of >=
stop_after_attempt_late(cfg, attempt_number) ==
    attempt_number > Max(1, cfg.RETRIES + 1)

\* stop = stop_after_attempt(max(1, config.RETRIES + 1))
stop_after_attempt(cfg, attempt_number) ==
    attempt_number >= Max(1, cfg.RETRIES + 1)

RECURSIVE Pow2(_)
Pow2(n) == IF n <= 0 THEN 1 ELSE 2 * Pow2(n - 1)

\* a wait that adds the jitter to the capped backoff
wait_capped_plus_jitter(cfg, attempt_number, jitter) ==
    Min(RETRY_BACKOFF_BASE_S * Pow2(attempt_number - 1), cfg.RETRY_BACKOFF_MAX_S) + jitter

\* wait = wait_exponential_jitter(initial, max, jitter), given the random
\* jitter drawn from 0..RETRY_JITTER_S: max(0, min(initial * 2 ** (n - 1) +
\* jitter, max))
wait_exponential_jitter(cfg, attempt_number, jitter) ==
    Max(0, Min(RETRY_BACKOFF_BASE_S * Pow2(attempt_number - 1) + jitter,
               cfg.RETRY_BACKOFF_MAX_S))

\* a retry condition that also asks for another attempt after a result
retry_if_exception_or_result(outcome) ==
    ~outcome.raised \/ _is_retryable_exception(outcome.exc)

\* retry = retry_if_exception(_is_retryable_exception): another attempt is
\* asked for only when the attempt raised and the predicate accepts what it
\* raised
retry_if_exception(outcome) ==
    outcome.raised /\ _is_retryable_exception(outcome.exc)

\* a decorator without reraise: the last failure wrapped in a RetryError
give_up_wrapped(last) == Raise(Exc("RetryError", <<"RetryError[">> \o last.exc.msg \o <<"]">>))

\* reraise = True: the exception of the last attempt is raised again
give_up(last) == Raise(last.exc)

InitGenerate ==
    /\ output_file = FileAbsent
    /\ messages = <<>>
    /\ MAX_CONCURRENCY = 1
    /\ run = 1
    /\ succeeded_before = {}
    /\ Fresh
    /\ call = [pc |-> "idle", message |-> NoMessage, gen |-> Return(PyNone),
               log |-> <<>>, result |-> Return(PyNone)]
    /\ bounded_queue = NoQueue
    /\ validator = NoValidate
    /\ loader = NoLoad
    /\ config \in Configs
    /\ client = [pc |-> "attempt", attempt_number |-> 1, log |-> <<>>, sleeps |-> <<>>, jitters |-> <<>>,
                 result |-> Return(PyNone)]

\* one attempt of generate under the retry decorator: the request, then
\* return its payload, or raise its failure (not retryable, or the attempts
\* are used up), or sleep and go to the next attempt
generate_attempt(transport, jitter) ==
    /\ client.pc = "attempt"
    /\ LET outcome == generate_once(config, transport)
           log == Append(client.log, [transport |-> transport, outcome |-> outcome])
       IN  IF ~retry_if_exception(outcome)
           THEN client' = [client EXCEPT
                               !.pc = IF outcome.raised THEN "raised" ELSE "returned",
                               !.log = log, !.result = outcome]
           ELSE IF stop_after_attempt(config, client.attempt_number)
           THEN client' = [client EXCEPT !.pc = "raised", !.log = log,
                                         !.result = give_up(outcome)]
           ELSE client' = [client EXCEPT
                               !.log = log,
                               !.attempt_number = @ + 1,
                               !.jitters = Append(@, jitter),
                               !.sleeps = Append(@, wait_exponential_jitter(
                                                        config, client.attempt_number, jitter))]
    /\ UNCHANGED <<pipeline_vars, config, call, bounded_queue, validator, loader>>

NextGenerate ==
    \E transport \in Transports : \E jitter \in 0..RETRY_JITTER_S :
        generate_attempt(transport, jitter)

SpecGenerate == InitGenerate /\ [][NextGenerate]_vars

\* ------------------------------------------------------ client properties
\* the retryable conditions: connection failure, request timeout, malformed
\* or empty response body, a status code in RETRY_STATUS_CODES
RetryableCondition(transport) ==
    \/ transport.kind \in {"timeout", "connection_error"}
    \/ /\ transport.kind = "response"
       /\ \/ transport.status \in RETRY_STATUS_CODES
          \/ /\ transport.status = 200
             /\ transport.body \in {"not_json", "empty", "inner_not_json"}

Failed(entry) == entry.outcome.raised

Attempts == Len(client.log)

AllAttemptsRetryable ==
    \A k \in 1..Attempts : Failed(client.log[k]) /\ RetryableCondition(client.log[k].transport)

\* C6 as stated: max_attempts = retries + 1; no call makes more attempts, and
\* a call whose attempts all fail with retryable conditions makes exactly
\* that many before the failure propagates
C6_RetryBudgetAsStated ==
    /\ Attempts <= config.RETRIES + 1
    /\ (client.pc = "raised" /\ AllAttemptsRetryable) => Attempts = config.RETRIES + 1

\* C6 amended: the same with max_attempts = max(1, retries + 1), which is
\* retries + 1 whenever retries >= 0
C6_RetryBudget ==
    /\ Attempts <= Max(1, config.RETRIES + 1)
    /\ (client.pc = "raised" /\ AllAttemptsRetryable) => Attempts = Max(1, config.RETRIES + 1)
    /\ (client.pc = "attempt" /\ AllAttemptsRetryable) => Attempts < Max(1, config.RETRIES + 1)

\* C6 witness: retries = 2 and the failure propagates after three attempts
\* that failed with retryable conditions
C6_Witness ==
    /\ config.RETRIES = 2
    /\ client.pc = "raised"
    /\ AllAttemptsRetryable
    /\ Attempts = 3
    /\ Len(client.sleeps) = 2

\* C7: an attempt that fails with none of the retryable conditions is the
\* last one: its failure propagates at once, with no backoff wait after it;
\* when it is the first attempt the call made one attempt and never waited
C7_NonRetryableNotRetried ==
    \A k \in 1..Attempts :
        (Failed(client.log[k]) /\ ~RetryableCondition(client.log[k].transport)) =>
            /\ k = Attempts
            /\ client.pc = "raised"
            /\ Len(client.sleeps) = k - 1

Producers == 1..MaxProducers

\* InMemoryQueue.size(): self._queue.qsize()
size(items) == Len(items)

InitQueue ==
    /\ output_file = FileAbsent
    /\ messages = <<>>
    /\ MAX_CONCURRENCY = 1
    /\ run = 1
    /\ succeeded_before = {}
    /\ Fresh
    /\ config = [RETRIES |-> 3, LLM_PORT |-> 11434,
                 RETRY_BACKOFF_MAX_S |-> RETRY_BACKOFF_MAX_S,
                 MEMORY_QUEUE_MAX_SIZE |-> 0]
    /\ client = [pc |-> "idle", attempt_number |-> 0, log |-> <<>>, sleeps |-> <<>>, jitters |-> <<>>,
                 result |-> Return(PyNone)]
    /\ call = [pc |-> "idle", message |-> NoMessage, gen |-> Return(PyNone),
               log |-> <<>>, result |-> Return(PyNone)]
    /\ \E maxsize \in 0..MaxCapacity :
           bounded_queue = [NoQueue EXCEPT
                                !.maxsize = maxsize,
                                !.producer = [p \in Producers |->
                                                  [state |-> "idle", item |-> NoMessage]]]
    /\ validator = NoValidate
    /\ loader = NoLoad

\* a task calls enqueue(message): put() appends the item when the queue is
\* not full, else it appends a future to the putters and awaits it
queue_enqueue(p, id) ==
    /\ bounded_queue.producer[p].state = "idle"
    /\ id \notin bounded_queue.issued
    /\ LET q == bounded_queue
           message == Message(id)
       IN  IF full(q.items, q.maxsize)
           THEN bounded_queue' =
                    [q EXCEPT !.issued = @ \cup {id},
                              !.putters = Append(@, p),
                              !.producer[p] = [state |-> "waiting", item |-> message]]
           ELSE bounded_queue' =
                    [q EXCEPT !.issued = @ \cup {id},
                              !.items = Append(@, message),
                              !.returned = Append(@, message)]
    /\ UNCHANGED <<pipeline_vars, config, client, call, validator, loader>>

\* the consumer calls dequeue(): get_nowait() removes the oldest item and
\* wakes the first suspended putter; on an empty queue dequeue returns None
queue_dequeue ==
    /\ LET q == bounded_queue
           got == dequeue(q.items)
           last == [id |-> IF got.value.t = "NoneType" THEN 0 ELSE got.value.id,
                    size |-> size(q.items)]
       IN  IF got.value.t = "NoneType"
           THEN bounded_queue' = [q EXCEPT !.last_dequeue = last]
           ELSE IF q.putters = <<>>
           THEN bounded_queue' = [q EXCEPT !.items = got.rest,
                                           !.taken = Append(@, got.value),
                                           !.last_dequeue = last]
           ELSE bounded_queue' = [q EXCEPT !.items = got.rest,
                                           !.taken = Append(@, got.value),
                                           !.last_dequeue = last,
                                           !.putters = Tail(@),
                                           !.producer[Head(q.putters)].state = "woken"]
    /\ UNCHANGED <<pipeline_vars, config, client, call, validator, loader>>

\* a woken putter runs again: `while self.full()` is tested anew, then
\* put_nowait(item) and enqueue returns
queue_resume(p) ==
    /\ bounded_queue.producer[p].state = "woken"
    /\ LET q == bounded_queue
       IN  IF full(q.items, q.maxsize)
           THEN bounded_queue' = [q EXCEPT !.putters = Append(@, p),
                                           !.producer[p].state = "waiting"]
           ELSE bounded_queue' =
                    [q EXCEPT !.items = Append(@, q.producer[p].item),
                              !.returned = Append(@, q.producer[p].item),
                              !.producer[p] = [state |-> "idle", item |-> NoMessage]]
    /\ UNCHANGED <<pipeline_vars, config, client, call, validator, loader>>

NextQueue ==
    \/ \E p \in Producers : \E id \in 1..MaxMsgs : queue_enqueue(p, id)
    \/ queue_dequeue
    \/ \E p \in Producers : queue_resume(p)

SpecQueue == InitQueue /\ [][NextQueue]_vars

\* C20: a queue of capacity C > 0 never holds more than C items; the items
\* whose enqueue returned are, in order, the items dequeue returned followed
\* by the items in the queue (none is dropped, none is missing); a task is
\* suspended only by an enqueue on a full queue, which leaves the queue as
\* it is; it is woken only by a dequeue that removed an item, and its
\* enqueue returns only after that, with its item appended to the queue
C20_Backpressure ==
    /\ [](bounded_queue.maxsize > 0 =>
              /\ Len(bounded_queue.items) <= bounded_queue.maxsize
              /\ bounded_queue.returned = bounded_queue.taken \o bounded_queue.items
              /\ \A p \in DOMAIN bounded_queue.producer :
                     bounded_queue.producer[p].state # "idle" =>
                         \A k \in 1..Len(bounded_queue.returned) :
                             bounded_queue.returned[k] # bounded_queue.producer[p].item)
    /\ [][bounded_queue.maxsize > 0 =>
              \A p \in DOMAIN bounded_queue.producer :
                  LET a == bounded_queue.producer[p].state
                      b == bounded_queue'.producer[p].state
                  IN  /\ (a = "idle" /\ b = "waiting") =>
                             /\ Len(bounded_queue.items) = bounded_queue.maxsize
                             /\ bounded_queue'.items = bounded_queue.items
                      /\ (a = "waiting" /\ b # "waiting") =>
                             /\ b = "woken"
                             /\ bounded_queue.items # <<>>
                             /\ bounded_queue'.items = Tail(bounded_queue.items)
                      /\ (a = "woken" /\ b = "idle") =>
                             /\ Len(bounded_queue.items) < bounded_queue.maxsize
                             /\ bounded_queue'.items =
                                    Append(bounded_queue.items, bounded_queue.producer[p].item)
                      /\ (a = "idle" /\ b # "idle") => b = "waiting"]_vars

\* C20 witness: on a queue of capacity 1 holding item 1 the enqueues of
\* items 2 and 3 were suspended; a dequeue returned item 1 and the enqueue
\* of item 2 returned, while the enqueue of item 3 is still suspended
C20_Witness ==
    /\ bounded_queue.maxsize = 1
    /\ bounded_queue.taken = <<Message(1)>>
    /\ bounded_queue.items = <<Message(2)>>
    /\ bounded_queue.returned = <<Message(1), Message(2)>>
    /\ Len(bounded_queue.putters) = 1
    /\ bounded_queue.producer[Head(bounded_queue.putters)] =
           [state |-> "waiting", item |-> Message(3)]

\* C21: whatever the interleaving of the enqueue and dequeue calls, on a
\* bounded or an unbounded queue, the items dequeue returned are, in the
\* order of the dequeues, the first of the items in the order in which their
\* enqueues took effect
C21_FifoDelivery ==
    /\ Len(bounded_queue.taken) <= Len(bounded_queue.returned)
    /\ bounded_queue.taken = SubSeq(bounded_queue.returned, 1, Len(bounded_queue.taken))

\* C21 witness: on an unbounded queue the items 3, 1, 2 were enqueued in
\* this order by different tasks and dequeue returned 3 and then 1
C21_Witness ==
    /\ bounded_queue.maxsize = 0
    /\ bounded_queue.returned = <<Message(3), Message(1), Message(2)>>
    /\ bounded_queue.taken = <<Message(3), Message(1)>>
    /\ bounded_queue.items = <<Message(2)>>

\* C22: size() is the number of enqueues that returned less the number of
\* dequeues that returned an item, and that number is never negative; a
\* dequeue call is one step: it returned None exactly when the size was 0,
\* and otherwise it removed the oldest item and nothing else
C22_QueueAccounting ==
    /\ [](/\ Len(bounded_queue.returned) >= Len(bounded_queue.taken)
          /\ size(bounded_queue.items) =
                 Len(bounded_queue.returned) - Len(bounded_queue.taken)
          /\ bounded_queue.last_dequeue.id >= 0 =>
                 (bounded_queue.last_dequeue.id = 0 <=> bounded_queue.last_dequeue.size = 0))
    /\ [][/\ bounded_queue'.taken # bounded_queue.taken =>
                 /\ bounded_queue.items # <<>>
                 /\ bounded_queue'.taken = Append(bounded_queue.taken, Head(bounded_queue.items))
                 /\ bounded_queue'.items = Tail(bounded_queue.items)
                 /\ bounded_queue'.returned = bounded_queue.returned
                 /\ bounded_queue'.last_dequeue =
                        [id |-> Head(bounded_queue.items).id, size |-> Len(bounded_queue.items)]
          /\ (bounded_queue'.last_dequeue # bounded_queue.last_dequeue
                  /\ bounded_queue'.last_dequeue.id = 0) =>
                 /\ bounded_queue.items = <<>>
                 /\ bounded_queue'.items = <<>>
                 /\ bounded_queue'.taken = bounded_queue.taken]_vars

\* C22 witness: three enqueues returned, two dequeues returned an item, the
\* size is 1, and before that a dequeue on the empty queue returned None
C22_Witness ==
    /\ Len(bounded_queue.returned) = 3
    /\ Len(bounded_queue.taken) = 2
    /\ size(bounded_queue.items) = 1
    /\ bounded_queue.last_dequeue.id > 0
    /\ bounded_queue.last_dequeue.size = 1


\* ------------------------------------------------------ backoff properties
\* the exponential backoff before the attempt that follows attempt k
Backoff(k) == Min(RETRY_BACKOFF_BASE_S * Pow2(k - 1), config.RETRY_BACKOFF_MAX_S)

\* C23 as stated: the delay after failed attempt k is the capped backoff plus
\* the jitter drawn for it, and so may exceed the backoff maximum
C23_BackoffAsStated ==
    \A k \in 1..Len(client.sleeps) :
        client.sleeps[k] = Backoff(k) + client.jitters[k]

\* C23: the delay slept after retryable failed attempt k is
\* min(base * 2^(k-1) + jitter, max): at least the capped backoff, at most the
\* backoff maximum, the jitter being absorbed by the cap
C23_BackoffBound ==
    \A k \in 1..Len(client.sleeps) :
        /\ client.jitters[k] \in 0..RETRY_JITTER_S
        /\ client.sleeps[k] =
               Min(RETRY_BACKOFF_BASE_S * Pow2(k - 1) + client.jitters[k],
                   config.RETRY_BACKOFF_MAX_S)
        /\ client.sleeps[k] >= Backoff(k)
        /\ client.sleeps[k] <= Backoff(k) + RETRY_JITTER_S
        /\ client.sleeps[k] <= config.RETRY_BACKOFF_MAX_S

\* a second failed attempt slept the full maximum although jitter was drawn
C23_Witness ==
    /\ Len(client.sleeps) >= 2
    /\ client.jitters[2] = RETRY_JITTER_S
    /\ Backoff(2) = config.RETRY_BACKOFF_MAX_S
    /\ client.sleeps[2] = config.RETRY_BACKOFF_MAX_S
    /\ client.sleeps[1] = RETRY_BACKOFF_BASE_S + client.jitters[1]


\* ---------------------------------------------- one call of the validator
\* the word limits a validator is constructed with: none, small ones and
\* the default
WordLimits == {0, 1, 2, description_word_limit}

\* what validate is called with: whatever generate returned that is not null
ValidateInputs == ClientReturns \ {PyNone}

InitValidate ==
    /\ output_file = FileAbsent
    /\ messages = <<>>
    /\ MAX_CONCURRENCY = 1
    /\ run = 1
    /\ succeeded_before = {}
    /\ Fresh
    /\ config = [RETRIES |-> 3, LLM_PORT |-> 11434,
                 RETRY_BACKOFF_MAX_S |-> RETRY_BACKOFF_MAX_S,
                 MEMORY_QUEUE_MAX_SIZE |-> 0]
    /\ client = [pc |-> "idle", attempt_number |-> 0, log |-> <<>>, sleeps |-> <<>>, jitters |-> <<>>,
                 result |-> Return(PyNone)]
    /\ call = [pc |-> "idle", message |-> NoMessage, gen |-> Return(PyNone),
               log |-> <<>>, result |-> Return(PyNone)]
    /\ bounded_queue = NoQueue
    /\ loader = NoLoad
    /\ \E word_limit \in WordLimits : \E llm_response \in ValidateInputs :
           validator = [description_word_limit |-> word_limit, pc |-> "called",
                        llm_response |-> llm_response, result |-> Return(PyNone)]

\* LLMResponseValidator.validate(llm_response) runs to its end
validator_validate ==
    /\ validator.pc = "called"
    /\ LET result == LLMResponseValidator_validate(validator.description_word_limit,
                                                   validator.llm_response)
       IN  validator' = [validator EXCEPT
                             !.pc = IF result.raised THEN "raised" ELSE "returned",
                             !.result = result]
    /\ UNCHANGED <<pipeline_vars, config, client, call, bounded_queue, loader>>

NextValidate == validator_validate

SpecValidate == InitValidate /\ [][NextValidate]_vars

\* validate has run to its end on a dict
Validated == validator.pc \in {"returned", "raised"} /\ validator.llm_response.t = "dict"

\* the category field of the payload as validate reads it
RawCategory == DictGet(validator.llm_response, "category", PyStr(<<>>))

\* validate failed with the invalid-category error
InvalidCategory == validator.pc = "raised" /\ validator.result.exc.cls = "ValueError"

\* validate succeeded with the enumeration member of this value
ValidCategory(value) ==
    /\ validator.pc = "returned"
    /\ validator.result.value.category = CategoryOf(value)

\* C24 as stated: validate succeeds exactly on a category string that equals
\* an enumeration value up to letter case, and fails with the invalid-category
\* error on everything else
C24_CategoryAsStated ==
    Validated =>
        IF RawCategory.t = "str" /\ Lower(RawCategory.v) \in Category
        THEN ValidCategory(Lower(RawCategory.v))
        ELSE InvalidCategory

\* C24: validate succeeds with an enumeration value exactly on a category
\* string that equals it up to letter case and surrounding whitespace; on
\* every other string, a missing field and a value that is no string it
\* fails with the invalid-category error
C24_CategoryValidation ==
    Validated =>
        IF RawCategory.t = "str" /\ Strip(Lower(RawCategory.v)) \in Category
        THEN ValidCategory(Strip(Lower(RawCategory.v)))
        ELSE InvalidCategory

\* validate succeeded on a category in capitals surrounded by spaces
C24_Witness ==
    /\ validator.pc = "returned"
    /\ RawCategory.t = "str"
    /\ RawCategory.v # Lower(RawCategory.v)
    /\ Lower(RawCategory.v) \notin Category
    /\ validator.result.value.category = CategoryOf(T_newsletter)


\* the emails field of the payload when it is a list, else no candidates
Candidates ==
    LET raw == DictGet(validator.llm_response, "emails", PyList(<<>>))
    IN  IF raw.t = "list" THEN {raw.v[i].v : i \in {j \in 1..Len(raw.v) : raw.v[j].t = "str"}}
        ELSE {}

\* the text contains '@@' or '..'
Doubled(email) == Contains(<<"@", "@">>, email) \/ Contains(<<".", ".">>, email)

\* C25: no email of a validated result contains '@@' or '..', each one has
\* the shape local@domain.tld with a top-level domain of two letters or more,
\* and a candidate containing '@@' or '..' is not in the result, neither as
\* written nor normalized
C25_EmailRejection ==
    validator.pc = "returned" =>
        LET emails == Range(validator.result.value.emails)
        IN  /\ \A email \in emails :
                   /\ ~Doubled(email)
                   /\ _email_pattern(email)
            /\ \A candidate \in Candidates :
                   Doubled(candidate) =>
                       /\ candidate \notin emails
                       /\ Strip(Lower(candidate)) \notin emails

\* validate returned emails although a candidate of the right shape
\* contained '..'
C25_Witness ==
    /\ validator.pc = "returned"
    /\ validator.result.value.emails # <<>>
    /\ \E candidate \in Candidates :
           /\ Contains(<<".", ".">>, candidate)
           /\ _email_pattern(Strip(Lower(candidate)))


\* an email list is normalized: every entry is its own lowercase form, no
\* entry occurs twice, and the entries ascend in text order
Normalized(emails) ==
    /\ \A i \in 1..Len(emails) : emails[i] = Lower(emails[i])
    /\ \A i \in 1..Len(emails) : \A j \in 1..Len(emails) :
           i < j => /\ emails[i] # emails[j]
                    /\ TextLess(emails[i], emails[j])

\* the str candidates of the emails field generate returned to process
CallCandidates ==
    LET raw == DictGet(call.gen.value, "emails", PyList(<<>>))
    IN  IF raw.t = "list" THEN {raw.v[i].v : i \in {j \in 1..Len(raw.v) : raw.v[j].t = "str"}}
        ELSE {}

\* C26: the emails of every validated result and of every successful Outcome
\* are lowercase, free of duplicates and in ascending order; candidates that
\* differ only in letter case or surrounding whitespace yield one entry
C26_EmailNormalization ==
    (call.pc = "returned" /\ call.result.value.success) =>
        LET emails == call.result.value.emails.v
        IN  /\ Normalized(emails)
            /\ Normalized(validate(call.gen.value).value.emails)
            /\ emails = validate(call.gen.value).value.emails
            /\ \A a \in CallCandidates : \A b \in CallCandidates :
                   Strip(Lower(a)) = Strip(Lower(b)) =>
                       Cardinality({i \in 1..Len(emails) : emails[i] = Strip(Lower(a))}) <= 1

\* a successful Outcome lists two emails in ascending order, one of them
\* given three times in different case and padding
C26_Witness ==
    /\ call.pc = "returned"
    /\ call.result.value.success
    /\ Len(call.result.value.emails.v) = 2
    /\ \E a \in CallCandidates : \E b \in CallCandidates : \E c \in CallCandidates :
           /\ a # b /\ b # c /\ a # c
           /\ Strip(Lower(a)) = Strip(Lower(b))
           /\ Strip(Lower(b)) = Strip(Lower(c))
           /\ Strip(Lower(a)) = call.result.value.emails.v[2]


\* the description field of the payload as text, empty when it is absent
\* or null
RawDescription ==
    LET raw == DictGet(validator.llm_response, "description", PyStr(<<>>))
    IN  IF Truthy(raw) THEN raw.v ELSE <<>>

\* the whitespace-separated tokens of the raw description
Tokens == Split(RawDescription)

\* the description of the validated result
Description == validator.result.value.description

\* C27 as stated: whenever the raw description has more tokens than the word
\* limit L, the validated description is the first L tokens joined by single
\* spaces
C27_TruncationAsStated ==
    (validator.pc = "returned" /\ Len(Tokens) > validator.description_word_limit) =>
        /\ Len(Split(Description)) = validator.description_word_limit
        /\ Description = JoinSpace(SubSeq(Tokens, 1, validator.description_word_limit))

\* C27: whenever the raw description has more tokens than a word limit
\* L >= 1, the validated description has exactly L tokens and is the first L
\* tokens of the input joined by single spaces
C27_DescriptionTruncation ==
    (/\ validator.pc = "returned"
     /\ validator.description_word_limit >= 1
     /\ Len(Tokens) > validator.description_word_limit) =>
        /\ Len(Split(Description)) = validator.description_word_limit
        /\ Description = JoinSpace(SubSeq(Tokens, 1, validator.description_word_limit))
        /\ \A i \in 1..Len(Description) :
               Description[i] \in Whitespace =>
                   /\ Description[i] = " "
                   /\ 1 < i /\ i < Len(Description)
                   /\ Description[i + 1] \notin Whitespace

\* twenty-seven tokens with uneven separators were cut to the default
\* twenty-five
C27_Witness ==
    /\ validator.pc = "returned"
    /\ validator.description_word_limit = description_word_limit
    /\ Len(Tokens) = description_word_limit + 2
    /\ Contains(<<" ", " ">>, RawDescription)
    /\ Len(Split(Description)) = description_word_limit

\* C28 as stated: for every word limit L >= 0 the validated description has
\* at most L words
C28_WordBoundAsStated ==
    (validator.pc = "returned" /\ validator.description_word_limit >= 0) =>
        Len(Split(Description)) <= validator.description_word_limit

\* C28: for every word limit L >= 1 the validated description has at most L
\* words; the limit 0 switches truncation off and the description is the
\* stripped input with all its words
C28_DescriptionWordBound ==
    validator.pc = "returned" =>
        /\ validator.description_word_limit >= 1 =>
               Len(Split(Description)) <= validator.description_word_limit
        /\ validator.description_word_limit = 0 =>
               /\ Description = Strip(RawDescription)
               /\ Len(Split(Description)) = Len(Tokens)

\* a validator with the limit 1 cut a description of several words to one
C28_Witness ==
    /\ validator.pc = "returned"
    /\ validator.description_word_limit = 1
    /\ Len(Tokens) > 1
    /\ Len(Split(Description)) = 1


\* ------------------------------------------------ one call of load_dataset
MaxEntries == 3

\* a JSON object of the dataset: the keys load_dataset reads
Entry(id, text, message, entries) ==
    [t |-> "dict", v |-> [id |-> id, text |-> text, message |-> message, messages |-> entries]]

\* Message(id = ..., text = ...): pydantic validates id > 0 and a text of 1
\* to 10000 characters
Message_init(id, text) ==
    IF id.t # "int" \/ text.t # "str"
    THEN Raise(Exc("ValidationError", <<"Input should be a valid value">>))
    ELSE IF ~(id.v > 0)
    THEN Raise(Exc("ValidationError", <<"id: Input should be greater than ", "0">>))
    ELSE IF ~(TextLen(text.v) >= 1 /\ TextLen(text.v) <= 10000)
    THEN Raise(Exc("ValidationError", <<"text: String should have ", "1", " to ", "10000", " characters">>))
    ELSE Return([t |-> "Message", id |-> id.v, text |-> text.v])

\* Message(id=item.get('id', i), text=item.get('text', item.get('message', '')))
Message_of(item, i) ==
    IF item.t # "dict"
    THEN Raise(Exc("AttributeError", <<"'", item.t, "' object has no attribute 'get'">>))
    ELSE Message_init(DictGet(item, "id", PyInt(i)),
                      DictGet(item, "text", DictGet(item, "message", PyStr(<<>>))))

\* for i, item in enumerate(...): the items from index i on, appended to the
\* messages so far; typed is TRUE in the loop that tests the type of each item
RECURSIVE load_items(_, _, _, _)
load_items(items, i, messages_, typed) ==
    IF items = <<>> THEN Return(messages_)
    ELSE LET item == Head(items)
             message == IF typed /\ item.t = "str" THEN Message_init(PyInt(i), item)
                        ELSE Message_of(item, i)
         IN  IF typed /\ item.t \notin {"dict", "str"}
             THEN load_items(Tail(items), i + 1, messages_, typed)
             ELSE IF message.raised THEN message
             ELSE load_items(Tail(items), i + 1, Append(messages_, message.value), typed)

\* EnrichmentApplication.load_dataset: `except Exception` logs and re-raises
load_dataset(file) ==
    IF file.state = "absent"
    THEN Raise(Exc("FileNotFoundError", <<"Dataset file not found: ...">>))
    ELSE IF file.state = "corrupt"
    THEN Raise(Exc("JSONDecodeError", <<"Expecting value: line ", "1", " column ", "1">>))
    ELSE LET data == file.data
         IN  IF data.t = "list" THEN load_items(data.v, 0, <<>>, TRUE)
             ELSE IF data.t = "dict"
             THEN IF data.v["messages"].t # "absent"
                  THEN load_items(data.v["messages"].v, 0, <<>>, FALSE)
                  ELSE LET message == Message_init(
                                          DictGet(data, "id", PyInt(0)),
                                          DictGet(data, "text",
                                                  DictGet(data, "message", PyStr(<<>>))))
                       IN  IF message.raised THEN message ELSE Return(<<message.value>>)
             ELSE Return(<<>>)

\* the entries of a dataset: objects with and without an id, with the text
\* under either key or under none, a plain string, and a number
DatasetEntries ==
    <<Entry(Absent, PyStr(<<"h", "i">>), Absent, Absent),
      Entry(Absent, Absent, PyStr(<<"y", "o">>), Absent),
      Entry(PyInt(7), PyStr(<<"h", "i">>), Absent, Absent),
      Entry(PyInt(0), Absent, Absent, Absent),
      PyStr(<<"h", "e", "y">>),
      PyInt(5)>>

\* the JSON value of the dataset file: an array of the chosen entries, an
\* object with such an array under messages, or the first chosen entry alone
DatasetShapes == {"array", "messages", "single"}

DatasetData(shape, chosen) ==
    LET entries == [i \in DOMAIN chosen |-> DatasetEntries[chosen[i]]]
    IN  CASE shape = "array" -> PyList(entries)
          [] shape = "messages" -> Entry(Absent, Absent, Absent, PyList(entries))
          [] shape = "single" -> entries[1]

InitLoad ==
    /\ output_file = FileAbsent
    /\ messages = <<>>
    /\ MAX_CONCURRENCY = 1
    /\ run = 1
    /\ succeeded_before = {}
    /\ Fresh
    /\ config = [RETRIES |-> 3, LLM_PORT |-> 11434,
                 RETRY_BACKOFF_MAX_S |-> RETRY_BACKOFF_MAX_S,
                 MEMORY_QUEUE_MAX_SIZE |-> 0]
    /\ client = [pc |-> "idle", attempt_number |-> 0, log |-> <<>>, sleeps |-> <<>>, jitters |-> <<>>,
                 result |-> Return(PyNone)]
    /\ call = [pc |-> "idle", message |-> NoMessage, gen |-> Return(PyNone),
               log |-> <<>>, result |-> Return(PyNone)]
    /\ bounded_queue = NoQueue
    /\ validator = NoValidate
    /\ \E state \in {"absent", "corrupt", "json"} : \E shape \in DatasetShapes :
           \E n \in 0..MaxEntries : \E chosen \in [1..n -> 1..Len(DatasetEntries)] :
               /\ shape = "single" => n = 1
               /\ state # "json" => n = 0 /\ shape = "array"
               /\ loader = [pc |-> "called",
                            file |-> [state |-> state,
                                      data |-> IF state = "json"
                                               THEN DatasetData(shape, chosen)
                                               ELSE PyNone],
                            result |-> Return(PyNone)]

\* await app.load_dataset(config.INPUT_PATH) runs to its end
loader_load_dataset ==
    /\ loader.pc = "called"
    /\ LET result == load_dataset(loader.file)
       IN  loader' = [loader EXCEPT
                          !.pc = IF result.raised THEN "raised" ELSE "returned",
                          !.result = result]
    /\ UNCHANGED <<pipeline_vars, config, client, call, bounded_queue, validator>>

NextLoad == loader_load_dataset

SpecLoad == InitLoad /\ [][NextLoad]_vars

\* the dataset is an array whose entries are objects without an id that
\* carry a text, or plain strings
IdlessArray ==
    /\ loader.file.state = "json"
    /\ loader.file.data.t = "list"
    /\ \A i \in 1..Len(loader.file.data.v) :
           LET item == loader.file.data.v[i]
           IN  \/ item.t = "str"
               \/ /\ item.t = "dict"
                  /\ item.v["id"].t = "absent"
                  /\ item.v["text"].t = "str" \/ item.v["message"].t = "str"

\* C29: for an array of N entries without ids load_dataset returns N
\* messages, the one of the entry at index i (counted from 0, as enumerate
\* counts) carrying i as its id
C29_PositionalIds ==
    (loader.pc \in {"returned", "raised"} /\ IdlessArray) =>
        /\ loader.pc = "returned"
        /\ Len(loader.result.value) = Len(loader.file.data.v)
        /\ \A i \in 1..Len(loader.result.value) : loader.result.value[i].id = i - 1


\* ------------------------------------------------- first success properties
\* C30: an attempt of generate that succeeds is the last one: generate
\* returns its payload at once, after exactly as many attempts as it took to
\* reach it, each earlier one having failed and been followed by one wait;
\* when the earlier ones failed with retryable conditions the successful
\* attempt lies within the attempt budget
C30_FirstSuccessStops ==
    /\ \A j \in 1..Attempts :
           ~Failed(client.log[j]) =>
               /\ j = Attempts
               /\ client.pc = "returned"
               /\ client.result = Return(client.log[j].outcome.value)
               /\ \A k \in 1..(j - 1) : Failed(client.log[k])
               /\ Len(client.sleeps) = j - 1
               /\ (\A k \in 1..(j - 1) : RetryableCondition(client.log[k].transport)) =>
                      j <= Max(1, config.RETRIES + 1)
    /\ client.pc = "returned" => ~Failed(client.log[Attempts])

\* the third attempt succeeded after a timeout and a retryable status, and
\* generate returned its payload
C30_Witness ==
    /\ client.pc = "returned"
    /\ Attempts = 3
    /\ client.log[1].transport.kind = "timeout"
    /\ client.log[2].transport.kind = "response"
    /\ client.log[2].transport.status \in RETRY_STATUS_CODES
    /\ client.result = client.log[3].outcome
    /\ client.result.value.t = "dict"


\* ------------------------------------------------- persist and resume again
\* the ids of the successful Outcomes of a list
SuccessIds(results) ==
    {results[i].id : i \in {j \in 1..Len(results) : results[j].success}}

\* C31: what _load_processed_ids reads back from the file ResultWriter.write
\* has written is exactly the set of ids of the Outcomes with success = true
\* in the list that was written, and it reads it without a failure
C31_PersistResumeRoundTrip ==
    pc = "done" =>
        /\ output_file = FileJson(output_data(all_results))
        /\ _load_processed_ids(output_file) = Return(SuccessIds(all_results))

\* a run wrote three Outcomes, the ones of the ids 1 and 3 successful and the
\* one of id 2 failed
C31_Witness ==
    /\ pc = "done"
    /\ Len(all_results) = 3
    /\ SuccessIds(all_results) = {1, 3}
    /\ _load_processed_ids(output_file).value = {1, 3}


\* the ids of the input items the resume filter of this run skipped
SkippedIds == {messages[i].id : i \in 1..Len(messages)} \cap processed_ids

\* the ids of the records of the output file
FileIds == {output_file.data[i].v["id"].v : i \in 1..Len(output_file.data)}

\* C32: when a run that skipped items at the resume filter has completed, the
\* output file is the array of the Outcomes of this run, all of them Outcomes
\* of items enqueued in this run (one for each enqueued item when there is a
\* worker); no record of a skipped item is in it, and when every item was
\* skipped the file is the empty array
C32_ResumedRunOutput ==
    (pc = "done" /\ SkippedIds # {}) =>
        /\ output_file = FileJson(output_data(all_results))
        /\ FileIds \subseteq Range(EnqueuedIds(trace))
        /\ MAX_CONCURRENCY >= 1 =>
               /\ FileIds = Range(EnqueuedIds(trace))
               /\ Len(output_file.data) = Len(EnqueuedIds(trace))
        /\ FileIds \cap SkippedIds = {}
        /\ SkippedIds = {messages[i].id : i \in 1..Len(messages)} =>
               output_file = FileJson(<<>>)

\* a second run over three items skipped the one that had succeeded and
\* wrote the Outcomes of the other two only
C32_Witness ==
    /\ pc = "done"
    /\ run = 2
    /\ Len(messages) = 3
    /\ Cardinality(SkippedIds) = 1
    /\ Len(output_file.data) = 2
    /\ succeeded_before = SkippedIds


\* _load_processed_ids has returned to enqueue_messages
Loaded == pc \in {"enqueue_loop", "start_processing"}

\* C33: _load_processed_ids returns the ids of all prior records with
\* success = true or the empty set, never a part of them; a record with
\* success = true and no id makes it return the empty set, and then every
\* input item is enqueued, the ones with a well-formed successful prior record
\* included
C33_ResumeAllOrNothing ==
    /\ Loaded =>
           /\ processed_ids \in {PriorSuccessIds(output_file), {}}
           /\ SuccessWithoutId(output_file) => processed_ids = {}
           /\ (output_file.kind = "json" /\ ~SuccessWithoutId(output_file)) =>
                  processed_ids = PriorSuccessIds(output_file)
    /\ (EnqueueReturned /\ SuccessWithoutId(output_file)) =>
           QueueIds = [i \in 1..Len(messages) |-> messages[i].id]

\* the prior output holds a successful record of id 1 and a successful record
\* without id; the items 1 and 2 are both enqueued
C33_Witness ==
    /\ EnqueueReturned
    /\ SuccessWithoutId(output_file)
    /\ PriorSuccessIds(output_file) = {1}
    /\ processed_ids = {}
    /\ QueueIds = <<1, 2>>


\* ------------------------------------------------------- the enqueue phase
\* the pipeline up to the start of the workers, for every configured queue
\* capacity, over no prior output or one successful prior record
InitEnqueue ==
    /\ \E capacity \in 0..MaxCapacity :
           config = [RETRIES |-> 3, LLM_PORT |-> 11434,
                     RETRY_BACKOFF_MAX_S |-> RETRY_BACKOFF_MAX_S,
                     MEMORY_QUEUE_MAX_SIZE |-> capacity]
    /\ client = [pc |-> "idle", attempt_number |-> 0, log |-> <<>>, sleeps |-> <<>>, jitters |-> <<>>,
                 result |-> Return(PyNone)]
    /\ call = [pc |-> "idle", message |-> NoMessage, gen |-> Return(PyNone),
               log |-> <<>>, result |-> Return(PyNone)]
    /\ bounded_queue = NoQueue
    /\ validator = NoValidate
    /\ loader = NoLoad
    /\ \/ output_file = FileAbsent
       \/ \E id \in 1..MaxMsgs :
              output_file = FileJson(<<ResultDict(PyInt(id), PyBool(TRUE), Absent, Absent,
                                                  Absent, Absent)>>)
    /\ messages \in Datasets
    /\ MAX_CONCURRENCY \in 0..MaxWorkers
    /\ run = 1
    /\ succeeded_before = {}
    /\ Fresh

NextEnqueue ==
    \/ \E answer \in HealthAnswers : initialize_components(health_check(answer))
    \/ enqueue_messages_load
    \/ enqueue_messages_step
    \/ start_processing

\* pipeline() is one coroutine: once enqueue_messages is called its steps
\* are taken as long as it is not suspended
SpecEnqueue ==
    /\ InitEnqueue
    /\ [][NextEnqueue]_vars
    /\ WF_vars(enqueue_messages_load)
    /\ WF_vars(enqueue_messages_step)

C35_EmptyPool ==
    /\ [](MAX_CONCURRENCY = 0 =>
              /\ pc = "failed" => trace = <<HealthChecked(FALSE)>>
              /\ DequeueCalls = {}
              /\ pc \in {"start_processing", "gather", "write", "done"} =>
                     /\ QueueIds = EnqueuedIds(trace)
                     /\ QueueIds = Without(messages, processed_ids)
              /\ Handed => all_results = <<>>
              /\ pc = "done" => output_file = FileJson(<<>>))
    /\ (MAX_CONCURRENCY = 0 /\ pc = "start_processing") ~> pc = "done"

\* start_processing returned with no worker and three items in the queue
C35_Witness ==
    /\ MAX_CONCURRENCY = 0
    /\ pc = "done"
    /\ Len(queue) = 3
    /\ output_file = FileJson(<<>>)

====
